---- MODULE Spec2Model ----
(***************************************************************************)
(* dirhash: hashing of file-system directory trees.                        *)
(*                                                                         *)
(* The model covers the filtered, symlink-aware walker                     *)
(* (src/src/dirhash/traverse.py), the hashing protocol, the sequential     *)
(* and two-pass engines with the worker pool (src/src/dirhash/__init__.py) *)
(* and the command line (src/src/dirhash/cli.py).  A file system is a      *)
(* finite set of entries below a root directory.  In the sessions the      *)
(* root is given by its real path; the statements about a root that is     *)
(* given through a symbolic link walk the same tree with root_link set.    *)
(* `scantree` of __init__.py is the walker `traverse` of traverse.py.      *)
(***************************************************************************)
EXTENDS Integers, Sequences, FiniteSets, TLC

(***************************************************************************)
(* Bounds                                                                  *)
(***************************************************************************)
\* the trees of a session hold up to MaxNodes entries; the deep trees, which
\* hold two symbolic links below a chain of directories, one entry more
MaxNodes == 3

Slots == MaxNodes + 1

Root == 0
Nodes == 1..Slots
AllNodes == 0..Slots

(***************************************************************************)
(* Strings are sequences of tokens.  A token is <<0, c>> for the character *)
(* with code c, or <<1, b>> for the hex digest of the byte string b (the   *)
(* hash function is treated as collision free, so a digest is identified   *)
(* with the bytes that were hashed).                                       *)
(***************************************************************************)
Str(codes) == [i \in 1..Len(codes) |-> <<0, codes[i]>>]

NUL == 0
DOT == 46
SLASH == 47

RECURSIVE StrLt(_, _)
TokLt(a, b) ==
    IF a[1] # b[1] THEN a[1] < b[1]
    ELSE IF a[1] = 0 THEN a[2] < b[2]
    ELSE StrLt(a[2], b[2])

\* Python's lexicographic order on strings (used by `sorted`)
StrLt(a, b) ==
    LET n == IF Len(a) < Len(b) THEN Len(a) ELSE Len(b)
        d == {i \in 1..n : a[i] # b[i]}
    IN  IF d = {} THEN Len(a) < Len(b)
        ELSE LET i == CHOOSE j \in d : \A k \in d : j <= k
             IN  TokLt(a[i], b[i])

Sorted(strs) == SortSeq(strs, LAMBDA x, y : StrLt(x, y))

RECURSIVE Join(_, _)
\* sep.join(strs)
Join(sep, strs) ==
    IF Len(strs) = 0 THEN <<>>
    ELSE IF Len(strs) = 1 THEN strs[1]
    ELSE strs[1] \o sep \o Join(sep, Tail(strs))

(***************************************************************************)
(* The file system.  Entry n of Nodes is absent ("none"), a directory, a   *)
(* regular file with content `data`, or a symbolic link to the directory   *)
(* or regular file `target`.  Entry 0 is the root directory.  The process  *)
(* has no permission to read the regular files of `unreadable`, and its    *)
(* working directory is `cwd`.  `root_link` tells that the path given as   *)
(* the directory to walk is a symbolic link to the root directory.         *)
(***************************************************************************)
Contents == {<<>>, Str(<<120>>), Str(<<121, 122>>)}

\* the name and the content the trees of the model give to entry n
DefaultName(n) == Str(<<96 + n>>)

DefaultData(n) == IF n % 2 = 1 THEN Str(<<120>>) ELSE <<>>

\* the working directory of the sessions
WorkDir == <<Str(<<119>>)>>

Entries ==
    [kind : {"none"}, parent : {Root}, data : {<<>>}, target : {Root}]
    \cup [kind : {"dir"}, parent : AllNodes, data : {<<>>}, target : {Root}]
    \cup [kind : {"file"}, parent : AllNodes, data : Contents, target : {Root}]
    \cup [kind : {"link"}, parent : AllNodes, data : {<<>>}, target : AllNodes]

KindOf(fs, n) == IF n = Root THEN "dir" ELSE fs.ent[n].kind

\* the trees the model draws from: entries are numbered parent first, absent
\* entries come last, a link points to a directory or regular file
WellFormed(ent) ==
    \A n \in Nodes :
        /\ ent[n].kind = "none" => \A m \in Nodes : m > n => ent[m].kind = "none"
        /\ ent[n].kind = "file" => ent[n].data = DefaultData(n)
        /\ ent[n].kind # "none" =>
              /\ ent[n].parent < n
              /\ ent[n].parent = Root \/ ent[ent[n].parent].kind = "dir"
        /\ ent[n].kind = "link" =>
              /\ ent[n].target # n
              /\ ent[n].target = Root \/ ent[ent[n].target].kind \in {"dir", "file"}

Present(fs) == {n \in Nodes : fs.ent[n].kind # "none"}

(***************************************************************************)
(* RecursionPath: `rel` is the sequence of entries from the root to the    *)
(* entry (its names joined by '/' are `relative`), `real` the entry the    *)
(* path resolves to.                                                       *)
(***************************************************************************)
from_root == [rel |-> <<>>, real |-> Root]

EntryOf(path) == IF path.rel = <<>> THEN Root ELSE path.rel[Len(path.rel)]

\* os.path.islink for the path of from_root, DirEntry.is_symlink below it
is_symlink(fs, path) ==
    IF EntryOf(path) = Root THEN fs.root_link ELSE fs.ent[EntryOf(path)].kind = "link"

is_dir(fs, path) == KindOf(fs, path.real) = "dir"

is_file(fs, path) == KindOf(fs, path.real) = "file"

name(fs, path) == fs.name[EntryOf(path)]

_join(fs, path, n) ==
    [rel |-> Append(path.rel, n),
     real |-> IF fs.ent[n].kind = "link" THEN fs.ent[n].target ELSE n]

\* the entries of a directory in the order the file system lists them
scandir(fs, order, path) ==
    LET listed == SelectSeq(order, LAMBDA n : n \in Present(fs) /\ fs.ent[n].parent = path.real)
    IN  [i \in 1..Len(listed) |-> _join(fs, path, listed[i])]

Components(fs, path) == [i \in 1..Len(path.rel) |-> fs.name[path.rel[i]]]

relative(fs, path) == Join(Str(<<SLASH>>), Components(fs, path))

(***************************************************************************)
(* Match patterns.  A pattern is a string; '!' in front makes it an        *)
(* exclude pattern.  Of the glob language the model keeps '*' (matches     *)
(* every path) and plain names (a name matches every path that has it as   *)
(* one of its components, as a .gitignore pattern without '/' does).       *)
(***************************************************************************)
\* a Python object is its class and its value; True and False are the bools
None == <<"NoneType", "None">>

True == <<"bool", TRUE>>

False == <<"bool", FALSE>>

isinstance(object, class) == object[1] = class

\* a list or a tuple with its items
List(items) == <<"list", items>>

Tuple(items) == <<"tuple", items>>

\* set(iterable) of a list or tuple
set(iterable) == {iterable[i] : i \in DOMAIN iterable}

STAR == 42
BANG == 33

\* deduplicate that keeps the last occurrence of an item
Deduplicate_keep_last(items) ==
    LET last(i) == \A j \in (i + 1)..Len(items) : items[j] # items[i]
        keep == {i \in 1..Len(items) : last(i)}
        nth(k) == CHOOSE i \in keep : Cardinality({j \in keep : j < i}) = k - 1
    IN  [k \in 1..Cardinality(keep) |-> items[nth(k)]]

Deduplicate(items) ==
    LET first(i) == \A j \in 1..(i - 1) : items[j] # items[i]
        keep == {i \in 1..Len(items) : first(i)}
        nth(k) == CHOOSE i \in keep : Cardinality({j \in keep : j < i}) = k - 1
    IN  [k \in 1..Cardinality(keep) |-> items[nth(k)]]

\* arguments are None or a list / tuple of pattern strings; ignore_hidden is
\* used for its truth value
get_match_patterns(match, ignore, ignore_extensions, ignore_hidden) ==
    LET match_list == IF isinstance(match, "NoneType") THEN <<Str(<<STAR>>)>> ELSE match[2]
        ignore_list == IF isinstance(ignore, "NoneType") THEN <<>> ELSE ignore[2]
        extensions == IF isinstance(ignore_extensions, "NoneType") THEN <<>>
                      ELSE ignore_extensions[2]
        hidden == IF ignore_hidden THEN <<Str(<<DOT, STAR>>), Str(<<DOT, STAR, SLASH>>)>>
                  ELSE <<>>
        ext(i) == IF Len(extensions[i]) > 0 /\ extensions[i][1] = <<0, DOT>>
                  THEN Str(<<STAR>>) \o extensions[i]
                  ELSE Str(<<STAR, DOT>>) \o extensions[i]
        all_ignore == ignore_list \o hidden \o [i \in 1..Len(extensions) |-> ext(i)]
        match_spec == match_list \o [i \in 1..Len(all_ignore) |-> Str(<<BANG>>) \o all_ignore[i]]
    IN  Deduplicate(match_spec)

\* GitWildMatchPattern: include flag and glob of a pattern string
PatternInclude(pat) == ~(Len(pat) > 0 /\ pat[1] = <<0, BANG>>)

PatternGlob(pat) == IF PatternInclude(pat) THEN pat ELSE Tail(pat)

GlobMatches(glob, components) ==
    \/ glob = Str(<<STAR>>)
    \/ \E i \in 1..Len(components) : components[i] = glob

\* pathspec.util.match_file: the last pattern that matches decides
match_file(patterns, components) ==
    LET hits == {i \in 1..Len(patterns) : GlobMatches(PatternGlob(patterns[i]), components)}
    IN  IF hits = {} THEN FALSE
        ELSE PatternInclude(patterns[CHOOSE i \in hits : \A j \in hits : j <= i])

(***************************************************************************)
(* The recursion filter (RecursionFilterBase, MatchPatterns; Filter of     *)
(* __init__.py adds empty_dirs).  flt = [match_patterns, linked_dirs,      *)
(* linked_files, empty_dirs].                                              *)
(***************************************************************************)
RecursionFilterBase_include(fs, flt, path) ==
    IF ~is_symlink(fs, path) THEN TRUE
    ELSE IF is_dir(fs, path) THEN flt.linked_dirs
    ELSE flt.linked_files

\* a filter that puts directories to the patterns as well
MatchPatterns_include_dirs_matched(fs, flt, path) ==
    IF ~RecursionFilterBase_include(fs, flt, path) THEN FALSE
    ELSE match_file(flt.match_patterns, Components(fs, path))

MatchPatterns_include(fs, flt, path) ==
    IF ~RecursionFilterBase_include(fs, flt, path) THEN FALSE
    ELSE IF is_dir(fs, path) THEN TRUE
    ELSE match_file(flt.match_patterns, Components(fs, path))

\* RecursionFilterBase.__call__
filter_call(fs, flt, paths) ==
    SelectSeq(paths, LAMBDA p : MatchPatterns_include(fs, flt, p))

Filter(match_patterns, linked_dirs, linked_files, empty_dirs) ==
    [match_patterns |-> IF match_patterns = <<>> THEN <<Str(<<STAR>>)>> ELSE match_patterns,
     linked_dirs |-> linked_dirs,
     linked_files |-> linked_files,
     empty_dirs |-> empty_dirs]

(***************************************************************************)
(* Hashing.  A hasher is the byte string fed to it so far.                 *)
(***************************************************************************)
\* the hasher that a constructor returns for its initial data
hasher_factory(initial) == initial

\* a class of hashers: the numbers of arguments that its constructor accepts
\* and the methods of its instances
HasherClass(module, qualname, arities, methods) ==
    <<"type", [module |-> module, name |-> qualname, arities |-> arities, methods |-> methods]>>

\* getattr(hashlib, algorithm)
getattr_hashlib(algorithm) ==
    HasherClass("hashlib", algorithm[2], {0, 1}, {"update", "hexdigest"})

\* partial(hashlib.new, algorithm)
partial_hashlib_new(algorithm) ==
    HasherClass("hashlib.new", algorithm[2], {0, 1}, {"update", "hexdigest"})

algorithms_guaranteed ==
    {<<"str", a>> : a \in {"md5", "sha1", "sha224", "sha256", "sha384", "sha512"}}

\* hashlib.algorithms_available: the guaranteed names and those of the build
algorithms_available == algorithms_guaranteed \cup {<<"str", "blake2b">>}

\* callable(*args): a str is not callable, and a class takes the numbers of
\* arguments of its constructor
call(callable, args) ==
    IF callable[1] # "type" THEN [err |-> "TypeError"]
    ELSE IF Len(args) \notin callable[2].arities THEN [err |-> "TypeError"]
    ELSE [err |-> "", val |-> hasher_factory(IF args = <<>> THEN <<>> ELSE args[1])]

_get_hasher_factory(algorithm) ==
    IF algorithm \in algorithms_guaranteed
    THEN [err |-> "", val |-> getattr_hashlib(algorithm)]
    ELSE IF algorithm \in algorithms_available
    THEN [err |-> "", val |-> partial_hashlib_new(algorithm)]
    ELSE IF /\ call(algorithm, <<<<>>>>).err = ""
            /\ "update" \in algorithm[2].methods
            /\ "hexdigest" \in algorithm[2].methods
    THEN [err |-> "", val |-> algorithm]
    ELSE [err |-> "ValueError"]

update(hasher, chunk) == hasher \o chunk

\* a digest that forgets what was hashed
hexdigest_colliding(hasher) == <<<<1, <<>>>>>>

hexdigest(hasher) == <<<<1, hasher>>>>

\* str.encode('utf-8'): a character below 128 is one byte of the same value;
\* the characters of a hex digest are such characters
RECURSIVE encode_utf8(_)
encode_utf8(string) ==
    LET wide == {i \in 1..Len(string) : string[i][1] = 0 /\ string[i][2] >= 128}
    IN  IF wide = {} THEN [i \in 1..Len(string) |-> string[i]]
        ELSE LET k == CHOOSE i \in wide : \A j \in wide : i <= j
             IN  SubSeq(string, 1, k - 1)
                     \o <<<<0, 192 + (string[k][2] \div 64)>>, <<0, 128 + (string[k][2] % 64)>>>>
                     \o encode_utf8(SubSeq(string, k + 1, Len(string)))

RECURSIVE ReadChunks(_, _, _, _)
\* for chunk in iter(lambda: f.read(chunk_size), b''): hasher.update(chunk)
\* f.read(n) returns up to n bytes, all the remaining bytes for a negative n
ReadChunks(content, pos, chunk_size, hasher) ==
    LET last == IF chunk_size < 0 THEN Len(content)
                ELSE IF pos + chunk_size - 1 < Len(content) THEN pos + chunk_size - 1
                ELSE Len(content)
        chunk == SubSeq(content, pos, last)
    IN  IF chunk = <<>> THEN hasher
        ELSE ReadChunks(content, last + 1, chunk_size, update(hasher, chunk))

\* _get_filehash without cache; open(filepath, 'rb') raises PermissionError
\* for a file that the process may not read
HashFile(fs, filepath, factory, chunk_size) ==
    LET hasher == call(factory, <<>>)
    IN  IF hasher.err # "" THEN [err |-> hasher.err]
        ELSE IF filepath \in fs.unreadable THEN [err |-> "PermissionError"]
        ELSE [err |-> "",
              val |-> hexdigest(ReadChunks(fs.ent[filepath].data, 1, chunk_size, hasher.val))]

\* _get_filehash that never looks into the cache
_get_filehash_uncached(fs, filepath, factory, chunk_size, st) ==
    LET filehash == HashFile(fs, filepath, factory, chunk_size)
    IN  IF filehash.err # "" THEN [err |-> filehash.err]
        ELSE [err |-> "", val |-> filehash.val,
              st |-> [st EXCEPT !.reads = Append(st.reads, filepath)]]

\* _get_filehash with cache: st = [cache, reads]; reads lists the files read
_get_filehash(fs, filepath, factory, chunk_size, st) ==
    IF filepath \in DOMAIN st.cache
    THEN [err |-> "", val |-> st.cache[filepath], st |-> st]
    ELSE LET filehash == HashFile(fs, filepath, factory, chunk_size)
         IN  IF filehash.err # "" THEN [err |-> filehash.err]
             ELSE [err |-> "", val |-> filehash.val,
                   st |-> [st EXCEPT !.cache = [f \in DOMAIN st.cache \cup {filepath} |->
                                                   IF f = filepath THEN filehash.val
                                                   ELSE st.cache[f]],
                                     !.reads = Append(st.reads, filepath)]]

(***************************************************************************)
(* Protocol                                                                *)
(***************************************************************************)
NAME == Str(<<110, 97, 109, 101>>)
DATA == Str(<<100, 97, 116, 97>>)
IS_LINK == Str(<<105, 115, 95, 108, 105, 110, 107>>)
_DIRHASH == Str(<<100, 105, 114, 104, 97, 115, 104>>)
COLON == 58

options == {"name", "data", "is_link"}

_entry_property_separator == Str(<<NUL>>)

\* a separator of one NUL character
_entry_descriptor_separator_single == Str(<<NUL>>)

_entry_descriptor_separator == Str(<<NUL, NUL>>)

\* Protocol.__init__ without the check for 'name' or 'data'
Protocol_error_lenient(entry_properties, allow_cyclic_links) ==
    IF ~(set(entry_properties) \subseteq options) THEN "ValueError"
    ELSE IF ~isinstance(allow_cyclic_links, "bool") THEN "ValueError"
    ELSE ""

\* Protocol.__init__: "" when the arguments are accepted
Protocol_error(entry_properties, allow_cyclic_links) ==
    IF ~(set(entry_properties) \subseteq options) THEN "ValueError"
    ELSE IF ~("name" \in set(entry_properties) \/ "data" \in set(entry_properties))
    THEN "ValueError"
    ELSE IF ~isinstance(allow_cyclic_links, "bool") THEN "ValueError"
    ELSE ""

\* a protocol that never includes the link status
Protocol_without_is_link(entry_properties, allow_cyclic_links) ==
    [entry_properties |-> set(entry_properties),
     _include_name |-> "name" \in set(entry_properties),
     _include_data |-> "data" \in set(entry_properties),
     _include_is_link |-> FALSE,
     allow_cyclic_links |-> allow_cyclic_links]

Protocol(entry_properties, allow_cyclic_links) ==
    [entry_properties |-> set(entry_properties),
     _include_name |-> "name" \in set(entry_properties),
     _include_data |-> "data" \in set(entry_properties),
     _include_is_link |-> "is_link" \in set(entry_properties),
     allow_cyclic_links |-> allow_cyclic_links]

\* '{}'.format(path.is_symlink): the bound method is formatted, not called;
\* its text shows the path object (relative path, real path, entry name)
FormatBoundMethod(fs, path) ==
    Str(<<60>>) \o relative(fs, path) \o Str(<<44>>)
        \o Str(<<SLASH, 48 + path.real>>) \o Str(<<44>>) \o name(fs, path) \o Str(<<62>>)

\* entry properties with the data of a file always among them
_get_entry_properties_with_data(fs, protocol, path, entry_hash) ==
    (IF is_dir(fs, path) THEN << <<_DIRHASH, entry_hash>> >>
     ELSE << <<DATA, entry_hash>> >>)
    \o (IF protocol._include_name THEN << <<NAME, name(fs, path)>> >> ELSE <<>>)
    \o (IF protocol._include_is_link THEN << <<IS_LINK, FormatBoundMethod(fs, path)>> >> ELSE <<>>)

\* entry properties with the link status always among them
_get_entry_properties_with_is_link(fs, protocol, path, entry_hash) ==
    (IF is_dir(fs, path) THEN << <<_DIRHASH, entry_hash>> >>
     ELSE IF protocol._include_data THEN << <<DATA, entry_hash>> >>
     ELSE <<>>)
    \o (IF protocol._include_name THEN << <<NAME, name(fs, path)>> >> ELSE <<>>)
    \o << <<IS_LINK, FormatBoundMethod(fs, path)>> >>

\* entry properties with the name always among them
_get_entry_properties_named(fs, protocol, path, entry_hash) ==
    (IF is_dir(fs, path) THEN << <<_DIRHASH, entry_hash>> >>
     ELSE IF protocol._include_data THEN << <<DATA, entry_hash>> >>
     ELSE <<>>)
    \o << <<NAME, name(fs, path)>> >>
    \o (IF protocol._include_is_link THEN << <<IS_LINK, FormatBoundMethod(fs, path)>> >> ELSE <<>>)

_get_entry_properties(fs, protocol, path, entry_hash) ==
    (IF is_dir(fs, path) THEN << <<_DIRHASH, entry_hash>> >>
     ELSE IF protocol._include_data THEN << <<DATA, entry_hash>> >>
     ELSE <<>>)
    \o (IF protocol._include_name THEN << <<NAME, name(fs, path)>> >> ELSE <<>>)
    \o (IF protocol._include_is_link THEN << <<IS_LINK, FormatBoundMethod(fs, path)>> >> ELSE <<>>)

_get_entry_descriptor(entry_properties) ==
    LET entry_strings == [i \in 1..Len(entry_properties) |->
                             entry_properties[i][1] \o Str(<<COLON>>) \o entry_properties[i][2]]
    IN  Join(_entry_property_separator, Sorted(entry_strings))

\* os.path.join('.', path) as a list of components
join_curdir(components) == <<Str(<<DOT>>)>> \o components

\* os.path.abspath(path): the working directory of the process joined with
\* the path and normalised, which drops the '.' components
abspath(fs, components) ==
    fs.cwd \o SelectSeq(components, LAMBDA x : x # Str(<<DOT>>))

\* os.path.relpath(path, start): '..' for every component of start after the
\* common prefix of the two absolute paths, then the rest of path
relpath(fs, path, start) ==
    LET start_list == abspath(fs, start)
        path_list == abspath(fs, path)
        n == IF Len(path_list) < Len(start_list) THEN Len(path_list) ELSE Len(start_list)
        diff == {i \in 1..n : path_list[i] # start_list[i]}
        common == IF diff = {} THEN n ELSE (CHOOSE i \in diff : \A j \in diff : i <= j) - 1
        rel_list == [i \in 1..(Len(start_list) - common) |-> Str(<<DOT, DOT>>)]
                        \o SubSeq(path_list, common + 1, Len(path_list))
    IN  IF rel_list = <<>> THEN Str(<<DOT>>) ELSE Join(Str(<<SLASH>>), rel_list)

\* the relative path from the target to the link
_get_cyclic_linked_dir_descriptor_from_target(fs, dir_node) ==
    relpath(fs, join_curdir(Components(fs, dir_node.path)),
            join_curdir(Components(fs, dir_node.target_path)))

_get_cyclic_linked_dir_descriptor(fs, dir_node) ==
    relpath(fs, join_curdir(Components(fs, dir_node.target_path)),
            join_curdir(Components(fs, dir_node.path)))

\* get_descriptor with the entry descriptors joined as discovered
get_descriptor_unsorted(fs, protocol, dir_node) ==
    IF dir_node.type = "CyclicLinkedDir" THEN _get_cyclic_linked_dir_descriptor(fs, dir_node)
    ELSE LET entries == dir_node.directories \o dir_node.files
             entry_descriptors == [i \in 1..Len(entries) |->
                 _get_entry_descriptor(
                     _get_entry_properties(fs, protocol, entries[i][1], entries[i][2]))]
         IN  Join(_entry_descriptor_separator, entry_descriptors)

get_descriptor(fs, protocol, dir_node) ==
    IF dir_node.type = "CyclicLinkedDir" THEN _get_cyclic_linked_dir_descriptor(fs, dir_node)
    ELSE LET entries == dir_node.directories \o dir_node.files
             entry_descriptors == [i \in 1..Len(entries) |->
                 _get_entry_descriptor(
                     _get_entry_properties(fs, protocol, entries[i][1], entries[i][2]))]
         IN  Join(_entry_descriptor_separator, Sorted(entry_descriptors))

(***************************************************************************)
(* Tree nodes                                                              *)
(***************************************************************************)
DirNode(path, directories, files) ==
    [type |-> "DirNode", path |-> path, directories |-> directories, files |-> files]

LinkedDir(path) == [type |-> "LinkedDir", path |-> path]

CyclicLinkedDir(path, target_path) ==
    [type |-> "CyclicLinkedDir", path |-> path, target_path |-> target_path]

\* emptiness that looks at the files only
empty_of_files(dir_node) == dir_node.files = <<>>

\* DirNode.empty
empty(dir_node) == dir_node.directories = <<>> /\ dir_node.files = <<>>

\* the string included_paths gives for a leaf
LeafString(fs, path) ==
    IF is_file(fs, path) THEN relative(fs, path)
    ELSE IF path.rel = <<>> THEN Str(<<DOT>>)
    ELSE relative(fs, path) \o Str(<<SLASH, DOT>>)

\* `name = value` followed by the statements F that read name
With(value, F(_)) == F(value)

(***************************************************************************)
(* The callbacks of a walk, selected by w.file_apply and w.dir_apply.      *)
(* w = [order, flt, protocol, follow_links, include_empty, chunk_size,     *)
(*      file_apply, dir_apply, real_path_to_hash].                         *)
(* st = [cache, reads, real_paths, folded] is what the callbacks write:    *)
(* the per-call cache, the files read, the set of real paths, and (for     *)
(* the statements about the digest) the leaves that entered a descriptor;  *)
(* st.applied is the cache of _cached_by_realpath, st.calls the calls of   *)
(* a caller's file_apply, st.file_paths the list of _traverse_multiprocess.*)
(* st.log is the history of the walk: the map `parents` after each entry   *)
(* into a directory and after each return from one.                        *)
(***************************************************************************)
Error(e) == [err |-> e]

NoState ==
    [cache |-> <<>>, reads |-> <<>>, real_paths |-> {}, folded |-> {}, log |-> <<>>,
     applied |-> <<>>, calls |-> <<>>, file_paths |-> <<>>]

Logged(st, event, path, parents) ==
    [st EXCEPT !.log = Append(@, [event |-> event, path |-> path, parents |-> parents])]

file_apply(fs, w, path, st) ==
    CASE w.file_apply = "hash" ->
            \* dirhash_impl, jobs == 1
            LET r == _get_filehash(fs, path.real, w.hasher_factory, w.chunk_size, st)
            IN  IF r.err # "" THEN Error(r.err)
                ELSE [err |-> "", val |-> <<path, r.val>>,
                      st |-> [r.st EXCEPT !.folded = @ \cup {LeafString(fs, path)}]]
      [] w.file_apply = "extract_real_paths" ->
            [err |-> "", val |-> path,
             st |-> [st EXCEPT !.real_paths = @ \cup {path.real}]]
      [] w.file_apply = "fetch" ->
            \* dirhash_impl, second pass
            IF path.real \in DOMAIN w.real_path_to_hash
            THEN [err |-> "", val |-> <<path, w.real_path_to_hash[path.real]>>,
                  st |-> [st EXCEPT !.folded = @ \cup {LeafString(fs, path)}]]
            ELSE Error("KeyError")
      [] w.file_apply = "by_real_path" ->
            \* a file_apply of a caller of traverse whose result depends on
            \* path.real only; calls lists the real paths it was called with
            [err |-> "", val |-> <<path.real>>,
             st |-> [st EXCEPT !.calls = Append(@, path.real)]]
      [] w.file_apply = "extract_paths" ->
            \* _traverse_multiprocess, first walk: the index of the path
            [err |-> "", val |-> Len(st.file_paths) + 1,
             st |-> [st EXCEPT !.file_paths = Append(@, path)]]
      [] w.file_apply = "fetch_result" ->
            \* _traverse_multiprocess, DirNode.apply: path is the index
            [err |-> "", val |-> w.file_results[path], st |-> st]
      [] OTHER -> [err |-> "", val |-> path, st |-> st]

\* dir_apply without the check of the root
dirhash_dir_apply_unchecked(fs, w, dir_node, st) ==
    IF dir_node.type = "LinkedDir" THEN Error("AttributeError")
    ELSE LET descriptor == get_descriptor(fs, w.protocol, dir_node)
             hasher == call(w.hasher_factory, <<encode_utf8(descriptor)>>)
             leaf == dir_node.type # "DirNode" \/ empty(dir_node)
         IN  IF hasher.err # "" THEN Error(hasher.err)
             ELSE [err |-> "", val |-> <<dir_node.path, hexdigest(hasher.val)>>,
                   st |-> IF leaf
                          THEN [st EXCEPT !.folded = @ \cup {LeafString(fs, dir_node.path)}]
                          ELSE st]

\* dirhash_impl.dir_apply
dirhash_dir_apply(fs, w, dir_node, st) ==
    IF ~w.flt.empty_dirs /\ dir_node.path.rel = <<>> /\ dir_node.type # "DirNode"
    THEN Error("AttributeError")
    ELSE IF ~w.flt.empty_dirs /\ dir_node.path.rel = <<>> /\ empty(dir_node)
    THEN Error("ValueError")
    ELSE IF dir_node.type = "LinkedDir" THEN Error("AttributeError")
    ELSE LET descriptor == get_descriptor(fs, w.protocol, dir_node)
             hasher == call(w.hasher_factory, <<encode_utf8(descriptor)>>)
             leaf == dir_node.type # "DirNode" \/ empty(dir_node)
         IN  IF hasher.err # "" THEN Error(hasher.err)
             ELSE [err |-> "", val |-> <<dir_node.path, hexdigest(hasher.val)>>,
                   st |-> IF leaf
                          THEN [st EXCEPT !.folded = @ \cup {LeafString(fs, dir_node.path)}]
                          ELSE st]

dir_apply(fs, w, dir_node, st) ==
    IF w.dir_apply = "dirhash" THEN dirhash_dir_apply(fs, w, dir_node, st)
    ELSE [err |-> "", val |-> dir_node, st |-> st]

(***************************************************************************)
(* The walker                                                              *)
(***************************************************************************)
\* Python's recursion limit, scaled to the trees of the model
RecursionLimit == 2 * MaxNodes + 2

\* parents[real] = path
SetItem(parents, real, path) ==
    [r \in DOMAIN parents \cup {real} |-> IF r = real THEN path ELSE parents[r]]

\* del parents[real]
DelItem(parents, real) == [r \in DOMAIN parents \ {real} |-> parents[r]]

\* file_apply_cached of _cached_by_realpath: the result is stored under
\* path.real and looked up under path.  A RecursionPath is an attrs class
\* with __eq__ and without __hash__, so the lookup raises TypeError (and it
\* would raise KeyError if paths were hashable)
_cached_by_realpath(fs, w, path, st) ==
    With(IF path.real \in DOMAIN st.applied THEN [err |-> "", st |-> st]
         ELSE With(file_apply(fs, w, path, st), LAMBDA a :
                   IF a.err # "" THEN Error(a.err)
                   ELSE [err |-> "",
                         st |-> [a.st EXCEPT !.applied = SetItem(@, path.real, a.val)]]),
         LAMBDA filled :
         IF filled.err # "" THEN Error(filled.err)
         ELSE Error("TypeError"))

\* the file_apply that _traverse_recursive is called with
traverse_file_apply(fs, w, path, st) ==
    IF w.cache_file_apply THEN _cached_by_realpath(fs, w, path, st)
    ELSE file_apply(fs, w, path, st)

RECURSIVE _traverse_recursive(_, _, _, _, _, _)
RECURSIVE ScanLoop(_, _, _, _, _, _, _, _, _)

\* the loop `for subpath in filter_(path.scandir())` from its i-th element on
ScanLoop(fs, w, subpaths, i, dirs, files, parents, st, depth) ==
    IF i > Len(subpaths)
    THEN [err |-> "", dirs |-> dirs, files |-> files, parents |-> parents, st |-> st]
    ELSE IF is_dir(fs, subpaths[i])
    THEN With(_traverse_recursive(fs, w, subpaths[i], parents, st, depth + 1), LAMBDA r :
              IF r.err # "" THEN Error(r.err)
              ELSE IF ~w.include_empty /\ r.node.type # "DirNode"
              THEN Error("AttributeError")     \* no attribute 'empty'
              ELSE IF w.include_empty \/ ~empty(r.node)
              THEN With(dir_apply(fs, w, r.node, r.st), LAMBDA a :
                        IF a.err # "" THEN Error(a.err)
                        ELSE ScanLoop(fs, w, subpaths, i + 1, Append(dirs, a.val), files,
                                      r.parents, a.st, depth))
              ELSE ScanLoop(fs, w, subpaths, i + 1, dirs, files, r.parents, r.st, depth))
    ELSE IF is_file(fs, subpaths[i])
    THEN With(traverse_file_apply(fs, w, subpaths[i], st), LAMBDA a :
              IF a.err # "" THEN Error(a.err)
              ELSE ScanLoop(fs, w, subpaths, i + 1, dirs, Append(files, a.val),
                            parents, a.st, depth))
    ELSE ScanLoop(fs, w, subpaths, i + 1, dirs, files, parents, st, depth)

_traverse_recursive(fs, w, path, parents, st, depth) ==
    IF depth > RecursionLimit THEN Error("RecursionError")
    ELSE IF is_symlink(fs, path) /\ ~w.follow_links
    THEN [err |-> "", node |-> LinkedDir(path), parents |-> parents, st |-> st]
    ELSE IF is_symlink(fs, path) /\ path.real \in DOMAIN parents
    THEN [err |-> "", node |-> CyclicLinkedDir(path, parents[path.real]),
          parents |-> parents, st |-> st]
    ELSE With(IF w.follow_links THEN SetItem(parents, path.real, path) ELSE parents,
              LAMBDA entered :
         With(ScanLoop(fs, w, filter_call(fs, w.flt, scandir(fs, w.order, path)), 1, <<>>, <<>>,
                       entered, Logged(st, "enter", path, entered), depth), LAMBDA r :
              IF r.err # "" THEN Error(r.err)
              ELSE IF w.follow_links /\ path.real \notin DOMAIN r.parents
              THEN Error("KeyError")
              ELSE With(IF w.follow_links THEN DelItem(r.parents, path.real) ELSE r.parents,
                        LAMBDA left :
                        [err |-> "", node |-> DirNode(path, r.dirs, r.files),
                         parents |-> left,
                         st |-> Logged(r.st, "return", path, left)])))

\* traverse (scantree) with jobs = 1
traverse_sequential(fs, w) ==
    With(_traverse_recursive(fs, w, from_root, SetItem(<<>>, from_root.real, from_root),
                             NoState, 1), LAMBDA r :
         IF r.err # "" THEN Error(r.err)
         ELSE dir_apply(fs, w, r.node, r.st))

RECURSIVE DirNode_apply(_, _, _, _)
RECURSIVE ApplyDirs(_, _, _, _, _, _)
RECURSIVE ApplyFiles(_, _, _, _, _, _)

\* [dir_.apply(dir_apply, file_apply) for dir_ in self.directories]
ApplyDirs(fs, w, directories, i, done, st) ==
    IF i > Len(directories) THEN [err |-> "", val |-> done, st |-> st]
    ELSE With(DirNode_apply(fs, w, directories[i], st), LAMBDA a :
              IF a.err # "" THEN Error(a.err)
              ELSE ApplyDirs(fs, w, directories, i + 1, Append(done, a.val), a.st))

\* [file_apply(file_) for file_ in self.files]
ApplyFiles(fs, w, files, i, done, st) ==
    IF i > Len(files) THEN [err |-> "", val |-> done, st |-> st]
    ELSE With(file_apply(fs, w, files[i], st), LAMBDA a :
              IF a.err # "" THEN Error(a.err)
              ELSE ApplyFiles(fs, w, files, i + 1, Append(done, a.val), a.st))

\* DirNode.apply; LinkedDir and CyclicLinkedDir have no method `apply`
DirNode_apply(fs, w, node, st) ==
    IF node.type # "DirNode" THEN Error("AttributeError")
    ELSE With(ApplyDirs(fs, w, node.directories, 1, <<>>, st), LAMBDA d :
              IF d.err # "" THEN Error(d.err)
              ELSE With(ApplyFiles(fs, w, node.files, 1, <<>>, d.st), LAMBDA f :
                        IF f.err # "" THEN Error(f.err)
                        ELSE dir_apply(fs, w, DirNode(node.path, d.val, f.val), f.st)))

\* pool.map(file_apply, file_paths) of _traverse_multiprocess: the results in
\* the order of the inputs
pool_map(fs, w, file_paths, st) == ApplyFiles(fs, w, file_paths, 1, <<>>, st)

\* traverse with jobs > 1: a walk that numbers the file paths, file_apply
\* mapped over them by the pool, and the results put in with DirNode.apply
_traverse_multiprocess(fs, w) ==
    With(traverse_sequential(fs, [w EXCEPT !.file_apply = "extract_paths",
                                           !.dir_apply = "identity", !.jobs = 1]),
         LAMBDA root :
         IF root.err # "" THEN Error(root.err)
         ELSE With(pool_map(fs, w, root.st.file_paths, root.st), LAMBDA file_results :
                   IF file_results.err # "" THEN Error(file_results.err)
                   ELSE DirNode_apply(fs, [w EXCEPT !.file_apply = "fetch_result",
                                                    !.file_results = file_results.val],
                                      root.val, file_results.st)))

\* traverse (scantree)
traverse(fs, w) ==
    IF w.jobs > 1 THEN _traverse_multiprocess(fs, w) ELSE traverse_sequential(fs, w)

(***************************************************************************)
(* The engine.  cfg holds the arguments of dirhash / included_paths.       *)
(***************************************************************************)
Outcome(e, digest, st) ==
    [err |-> e, digest |-> digest, folded |-> st.folded, reads |-> st.reads]

NoOutcome == Outcome("none", <<>>, NoState)

Walk(order, flt, protocol, factory, chunk_size, fa, da, map) ==
    [order |-> order, flt |-> flt, protocol |-> protocol, hasher_factory |-> factory,
     follow_links |-> TRUE,
     \* passed on by the engine; lines 185-190 of the walker do not read it
     allow_cyclic_links |-> protocol.allow_cyclic_links,
     include_empty |-> flt.empty_dirs,
     chunk_size |-> chunk_size,
     file_apply |-> fa, dir_apply |-> da, real_path_to_hash |-> map,
     \* dirhash_impl passes cache_file_apply=False and jobs=1
     cache_file_apply |-> FALSE, jobs |-> 1, file_results |-> <<>>]

MakeFilter(cfg) ==
    Filter(get_match_patterns(Tuple(cfg.match), List(cfg.ignore), None, FALSE),
           cfg.linked_dirs, cfg.linked_files, cfg.empty_dirs)

\* dirhash with jobs = 1 (dirhash_impl, single pass)
dirhash_sequential(fs, order, cfg) ==
    IF Protocol_error(cfg.entry_properties, cfg.allow_cyclic_links) # ""
    THEN Outcome(Protocol_error(cfg.entry_properties, cfg.allow_cyclic_links), <<>>, NoState)
    ELSE IF _get_hasher_factory(cfg.algorithm).err # ""
    THEN Outcome(_get_hasher_factory(cfg.algorithm).err, <<>>, NoState)
    ELSE With(traverse(fs, Walk(order, MakeFilter(cfg),
                                Protocol(cfg.entry_properties, cfg.allow_cyclic_links),
                                _get_hasher_factory(cfg.algorithm).val,
                                cfg.chunk_size, "hash", "dirhash", <<>>)), LAMBDA r :
              IF r.err # "" THEN Outcome(r.err, <<>>, NoState)
              ELSE Outcome("", r.val[2], r.st))

\* dirhash with jobs > 1, first pass: the stored tree and the real paths
first_pass(fs, order, cfg) ==
    IF _get_hasher_factory(cfg.algorithm).err # ""
    THEN Error(_get_hasher_factory(cfg.algorithm).err)
    ELSE traverse(fs, Walk(order, MakeFilter(cfg),
                           Protocol(cfg.entry_properties, cfg.allow_cyclic_links),
                           _get_hasher_factory(cfg.algorithm).val,
                           cfg.chunk_size, "extract_real_paths", "identity", <<>>))

\* _parmap as a function of its arguments: [func(element) for element in
\* iterable], the results in the order of the inputs, or the exception of func
_parmap(fs, factory, chunk_size, real_paths, jobs) ==
    LET results == [i \in 1..Len(real_paths) |-> HashFile(fs, real_paths[i], factory, chunk_size)]
    IN  IF \E i \in DOMAIN results : results[i].err # ""
        THEN [err |-> results[CHOOSE i \in DOMAIN results : results[i].err # ""].err]
        ELSE [err |-> "", val |-> [i \in DOMAIN results |-> results[i].val]]

\* dict(zip(real_paths, file_hashes))
dict_zip(real_paths, file_hashes) ==
    LET n == IF Len(real_paths) < Len(file_hashes) THEN Len(real_paths) ELSE Len(file_hashes)
        keys == {real_paths[i] : i \in 1..n}
    IN  [k \in keys |-> file_hashes[CHOOSE i \in 1..n :
                            real_paths[i] = k /\ \A j \in 1..n : real_paths[j] = k => j <= i]]

\* pool = Pool(jobs) of _parmap: `running` are the inputs that a worker process
\* is busy with, `done` the inputs that are finished, in the order in which the
\* workers finished them, `results` what func returned or raised for them
Pool(jobs) == [jobs |-> jobs, running |-> {}, done |-> <<>>, results |-> <<>>]

\* no pool: before Pool(jobs) and after pool.close()
NoPool == [jobs |-> 0, running |-> {}, done |-> <<>>, results |-> <<>>]

\* dirhash with jobs > 1, second pass: the fold of the stored tree
second_pass(fs, order, cfg, tree, map) ==
    With(DirNode_apply(fs, Walk(order, MakeFilter(cfg),
                                Protocol(cfg.entry_properties, cfg.allow_cyclic_links),
                                _get_hasher_factory(cfg.algorithm).val,
                                cfg.chunk_size, "fetch", "dirhash", map),
                       tree, NoState), LAMBDA r :
         IF r.err # "" THEN Outcome(r.err, <<>>, NoState)
         ELSE Outcome("", r.val[2], r.st))

RECURSIVE Leaves(_, _)
RECURSIVE LeavesOf(_, _, _)
LeavesOf(fs, directories, i) ==
    IF i > Len(directories) THEN <<>>
    ELSE Leaves(fs, directories[i]) \o LeavesOf(fs, directories, i + 1)

\* the file leaves and the leaf directories of a stored tree
Leaves(fs, node) ==
    IF node.type # "DirNode" THEN <<node.path>>
    ELSE IF empty(node) THEN <<node.path>>
    ELSE LeavesOf(fs, node.directories, 1) \o node.files

\* DirNode.leafpaths: the leaves, sorted by relative path; an empty root is a
\* leaf only when empty directories are included
leafpaths(fs, node, include_empty) ==
    LET all == Leaves(fs, node)
        kept == SelectSeq(all, LAMBDA p : p.rel # <<>> \/ include_empty \/ node.type # "DirNode")
    IN  SortSeq(kept, LAMBDA p, q : StrLt(relative(fs, p), relative(fs, q)))

\* included_paths that does not pass linked_files on to the filter
included_paths_all_files(fs, order, cfg) ==
    IF Protocol_error(<<"name", "data">>, cfg.allow_cyclic_links) # ""
    THEN [err |-> "ValueError", paths |-> <<>>, reads |-> <<>>]
    ELSE With(traverse(fs, Walk(order, MakeFilter([cfg EXCEPT !.linked_files = TRUE]),
                                Protocol(<<"name", "data">>, cfg.allow_cyclic_links),
                                None, cfg.chunk_size, "identity", "identity", <<>>)), LAMBDA r :
              IF r.err # "" THEN [err |-> r.err, paths |-> <<>>, reads |-> <<>>]
              ELSE With(leafpaths(fs, r.val, cfg.empty_dirs), LAMBDA lp :
                        [err |-> "", paths |-> [i \in 1..Len(lp) |-> LeafString(fs, lp[i])],
                         reads |-> r.st.reads]))

included_paths(fs, order, cfg) ==
    IF Protocol_error(<<"name", "data">>, cfg.allow_cyclic_links) # ""
    THEN [err |-> "ValueError", paths |-> <<>>, reads |-> <<>>]
    ELSE With(traverse(fs, Walk(order, MakeFilter(cfg),
                                Protocol(<<"name", "data">>, cfg.allow_cyclic_links),
                                None, cfg.chunk_size, "identity", "identity", <<>>)), LAMBDA r :
              IF r.err # "" THEN [err |-> r.err, paths |-> <<>>, reads |-> <<>>]
              ELSE With(leafpaths(fs, r.val, cfg.empty_dirs), LAMBDA lp :
                        [err |-> "", paths |-> [i \in 1..Len(lp) |-> LeafString(fs, lp[i])],
                         reads |-> r.st.reads]))

(***************************************************************************)
(* The state machine: one session on a fixed tree and configuration, as    *)
(* the test helper dirhash_mp_comp runs it: dirhash with jobs = 1, then    *)
(* dirhash with jobs > 1 (first pass, pool, second pass), then             *)
(* included_paths with the same arguments, and at last the command         *)
(* `dirhash` with the same options.  In the pool every worker process is   *)
(* a process of its own: it takes an input and returns its result in       *)
(* steps that interleave with those of the other workers; pool.map         *)
(* returns when all inputs are done.                                       *)
(***************************************************************************)
VARIABLES fs, order, cfg, pc, res, root_node, real_paths, file_hashes, res_mp, listing, cli,
          pool

vars == <<fs, order, cfg, pc, res, root_node, real_paths, file_hashes, res_mp, listing, cli, pool>>

Perms(S) == {s \in [1..Cardinality(S) -> S] : \A i, j \in 1..Cardinality(S) : s[i] = s[j] => i = j}

\* the listing orders the sessions run under; the statements about the
\* discovery order range over Perms(Nodes)
Orders == {[i \in 1..Slots |-> i], [i \in 1..Slots |-> Slots + 1 - i]}

EntryPropertySets == {<<"name", "data">>, <<"name">>, <<"data">>,
                      <<"name", "data", "is_link">>, <<"name", "is_link">>, <<"data", "is_link">>}

\* valid entry_properties arguments with the tokens reordered and repeated
RepeatedPropertyLists == {<<"data", "name">>, <<"name", "data", "name">>,
                          <<"is_link", "name", "is_link">>}

\* entry_properties arguments that Protocol refuses
InvalidPropertyLists == {<<>>, <<"is_link">>, <<"name", "not-valid">>}

\* allow_cyclic_links arguments that are not bools
NonBooleans == {<<"str", "not-valid">>, <<"int", 1>>}

\* algorithm arguments: names (guaranteed, available only, unknown) and
\* hasher classes (initial data optional, initial data required, no initial
\* data taken, no hexdigest method)
Algorithms ==
    {<<"str", "sha256">>, <<"str", "blake2b">>, <<"str", "not available">>,
     HasherClass("tests", "IdentityHasher", {0, 1}, {"update", "hexdigest"}),
     HasherClass("tests", "DataHasher", {1}, {"update", "hexdigest"}),
     HasherClass("tests", "PlainHasher", {0}, {"update", "hexdigest"}),
     HasherClass("tests", "IncompleteMockHasher", {0, 1}, {"update"})}

\* chunk_size arguments: -1 (read all), 0, and 1 to MaxChunk bytes
MaxChunk == 3

ChunkSizes == -1..MaxChunk

MatchArgs == {<<Str(<<STAR>>)>>, <<Str(<<STAR>>), Str(<<BANG, 98>>)>>}

IgnoreArgs == {<<>>, <<Str(<<97>>)>>}

JobCounts == {2, 3}

\* the defaults of dirhash(); chunk_size 2**20 is scaled to the file sizes
DefaultConfig ==
    [match |-> <<Str(<<STAR>>)>>, ignore |-> <<>>,
     linked_dirs |-> TRUE, linked_files |-> TRUE, empty_dirs |-> FALSE,
     entry_properties |-> <<"name", "data">>, allow_cyclic_links |-> False,
     chunk_size |-> 1, algorithm |-> <<"str", "md5">>]

\* the configurations of the sessions: every combination of the four flags,
\* every property set, and every match / ignore argument
Configs ==
    {[DefaultConfig EXCEPT !.linked_dirs = a, !.linked_files = b,
                           !.empty_dirs = c, !.allow_cyclic_links = <<"bool", d>>] :
        a \in BOOLEAN, b \in BOOLEAN, c \in BOOLEAN, d \in BOOLEAN}
    \cup {[DefaultConfig EXCEPT !.entry_properties = p, !.empty_dirs = c,
                                !.allow_cyclic_links = True] :
        p \in EntryPropertySets, c \in BOOLEAN}
    \cup {[DefaultConfig EXCEPT !.match = m, !.ignore = i, !.empty_dirs = c] :
        m \in MatchArgs, i \in IgnoreArgs, c \in BOOLEAN}
    \cup {[DefaultConfig EXCEPT !.entry_properties = p] :
        p \in RepeatedPropertyLists \cup InvalidPropertyLists}
    \cup {[DefaultConfig EXCEPT !.allow_cyclic_links = v] : v \in NonBooleans}
    \cup {[DefaultConfig EXCEPT !.algorithm = a] : a \in Algorithms}
    \cup {[DefaultConfig EXCEPT !.chunk_size = c] : c \in ChunkSizes}

Absent == [kind |-> "none", parent |-> Root, data |-> <<>>, target |-> Root]

\* the trees of up to MaxNodes entries
FileSystems ==
    {[ent |-> e, name |-> [n \in Nodes |-> DefaultName(n)], unreadable |-> {},
      cwd |-> WorkDir, root_link |-> FALSE] :
        e \in {x \in {[n \in Nodes |-> IF n <= MaxNodes THEN y[n] ELSE Absent] :
                          y \in [1..MaxNodes -> Entries]} : WellFormed(x)}}

\* the deep trees: a chain of directories, each in the one before, and two
\* symbolic links to directories, in any of the directories
DeepTrees ==
    {[ent |-> [n \in Nodes |->
                  IF n < MaxNodes
                  THEN [kind |-> "dir", parent |-> n - 1, data |-> <<>>, target |-> Root]
                  ELSE [kind |-> "link", parent |-> l[n][1], data |-> <<>>, target |-> l[n][2]]],
      name |-> [n \in Nodes |-> DefaultName(n)], unreadable |-> {},
      cwd |-> WorkDir, root_link |-> FALSE] :
        l \in [MaxNodes..Slots -> (0..(MaxNodes - 1)) \X (0..(MaxNodes - 1))]}

\* the trees with one regular file that the process may not read
LockedTrees ==
    UNION {{[f EXCEPT !.unreadable = {n}] : n \in {m \in 1..MaxNodes : f.ent[m].kind = "file"}} :
               f \in FileSystems}

\* the configurations of the sessions on the deep trees: the four flags
FlagConfigs ==
    {[DefaultConfig EXCEPT !.linked_dirs = a, !.linked_files = b,
                           !.empty_dirs = c, !.allow_cyclic_links = <<"bool", d>>] :
        a \in BOOLEAN, b \in BOOLEAN, c \in BOOLEAN, d \in BOOLEAN}

NoListing == [err |-> "none", paths |-> <<>>, reads |-> <<>>]

(***************************************************************************)
(* The command line (src/src/dirhash/cli.py).  A call of f with keyword    *)
(* arguments binds the keywords to the parameters of f and raises          *)
(* TypeError for a keyword that f does not have.                           *)
(***************************************************************************)
SPACE == 32

\* str.split(sep): the parts between the occurrences of sep, [''] for ''
RECURSIVE str_split(_, _)
str_split(s, sep) ==
    LET hits == {i \in 1..(Len(s) - Len(sep) + 1) : SubSeq(s, i, i + Len(sep) - 1) = sep}
    IN  IF hits = {} THEN <<s>>
        ELSE LET i == CHOOSE j \in hits : \A k \in hits : j <= k
             IN  <<SubSeq(s, 1, i - 1)>> \o str_split(SubSeq(s, i + Len(sep), Len(s)), sep)

\* string_arg is None or a str
parse_string_arg(string_arg) ==
    IF isinstance(string_arg, "NoneType") \/ string_arg[2] = <<>> THEN <<>>
    ELSE str_split(string_arg[2], Str(<<SPACE>>))

\* kwargs is vars(parser.parse_args(args))
preprocess_kwargs(kwargs) ==
    [list |-> kwargs.list,
     directory |-> kwargs.directory,
     algorithm |-> kwargs.algorithm,
     chunk_size |-> kwargs.chunk_size,
     jobs |-> kwargs.jobs,
     filtering |->
        [match |-> get_match_patterns(
                       List(parse_string_arg(kwargs.match)),
                       List(parse_string_arg(kwargs.ignore)),
                       List(IF isinstance(kwargs.ignore_extensions, "NoneType") THEN <<>>
                            ELSE IF Len(kwargs.ignore_extensions[2]) = 1
                            THEN parse_string_arg(<<"str", kwargs.ignore_extensions[2][1]>>)
                            ELSE kwargs.ignore_extensions[2]),
                       kwargs.ignore_hidden),
         linked_dirs |-> kwargs.linked_dirs,
         linked_files |-> kwargs.linked_files,
         empty_dirs |-> kwargs.empty_dirs],
     protocol |->
        [allow_cyclic_links |-> kwargs.allow_cyclic_links,
         entry_properties |-> IF isinstance(kwargs.properties, "NoneType") THEN <<"data", "name">>
                              ELSE kwargs.properties[2]]]

\* the parameters of dirhash.dirhash and of dirhash.included_paths
dirhash_parameters ==
    {"directory", "algorithm", "match", "ignore", "linked_dirs", "linked_files", "empty_dirs",
     "entry_properties", "allow_cyclic_links", "chunk_size", "jobs"}

included_paths_parameters ==
    {"directory", "match", "ignore", "linked_dirs", "linked_files", "empty_dirs",
     "allow_cyclic_links"}

\* the binding of keyword arguments to parameters; "" when every keyword is a
\* parameter and every required parameter is given
bind(kwargs, parameters, required) ==
    IF DOMAIN kwargs \ parameters # {} THEN "TypeError"
    ELSE IF required \ DOMAIN kwargs # {} THEN "TypeError"
    ELSE ""

\* the arguments of a call, the parameters not given at their defaults
BoundConfig(kwargs) ==
    LET arg(k) == IF k \in DOMAIN kwargs THEN kwargs[k] ELSE DefaultConfig[k]
    IN  [match |-> arg("match"), ignore |-> arg("ignore"),
         linked_dirs |-> arg("linked_dirs"), linked_files |-> arg("linked_files"),
         empty_dirs |-> arg("empty_dirs"), entry_properties |-> arg("entry_properties"),
         allow_cyclic_links |-> arg("allow_cyclic_links"),
         chunk_size |-> arg("chunk_size"), algorithm |-> arg("algorithm")]

\* dirhash with jobs > 1; listed is the order of list(real_paths)
dirhash_parallel(f, o, c, jobs, listed) ==
    IF Protocol_error(c.entry_properties, c.allow_cyclic_links) # ""
    THEN Outcome(Protocol_error(c.entry_properties, c.allow_cyclic_links), <<>>, NoState)
    ELSE With(first_pass(f, o, c), LAMBDA r :
         IF r.err # "" THEN Outcome(r.err, <<>>, NoState)
         ELSE With(SelectSeq(listed, LAMBDA n : n \in r.st.real_paths), LAMBDA paths :
              With(_parmap(f, _get_hasher_factory(c.algorithm).val, c.chunk_size,
                           paths, jobs), LAMBDA hashes :
                   IF hashes.err # "" THEN Outcome(hashes.err, <<>>, NoState)
                   ELSE second_pass(f, o, c, r.val,
                                    dict_zip(paths, hashes.val)))))

\* dirhash.dirhash called with the keyword arguments kwargs
dirhash(f, o, kwargs, listed) ==
    IF bind(kwargs, dirhash_parameters, {"directory", "algorithm"}) # ""
    THEN Outcome(bind(kwargs, dirhash_parameters, {"directory", "algorithm"}), <<>>, NoState)
    ELSE IF kwargs.jobs = 1 THEN dirhash_sequential(f, o, BoundConfig(kwargs))
    ELSE dirhash_parallel(f, o, BoundConfig(kwargs), kwargs.jobs, listed)

\* the record without the fields of keys
Pop(kwargs, keys) == [k \in DOMAIN kwargs \ keys |-> kwargs[k]]

\* main: what the process writes and its exit status; the class of the error
\* stands for the line 'dirhash: <message>' on standard error; argparse exits
\* with status 2 for an algorithm that is not among the choices
main(f, o, args, listed) ==
    IF args.algorithm \notin algorithms_available
    THEN [stdout |-> <<>>, stderr |-> "usage", returncode |-> 2]
    ELSE With(preprocess_kwargs(args), LAMBDA kwargs :
         IF kwargs.list
         THEN IF bind(Pop(kwargs, {"list", "algorithm", "chunk_size", "jobs"}),
                      included_paths_parameters, {"directory"}) # ""
              THEN [stdout |-> <<>>, stderr |-> "TypeError", returncode |-> 1]
              ELSE With(included_paths(f, o, BoundConfig(Pop(kwargs, {"list"}))), LAMBDA l :
                   IF l.err # ""
                   THEN [stdout |-> <<>>, stderr |-> l.err, returncode |-> 1]
                   ELSE [stdout |-> l.paths, stderr |-> "", returncode |-> 0])
         ELSE With(dirhash(f, o, Pop(kwargs, {"list"}), listed), LAMBDA r :
              IF r.err # ""
              THEN [stdout |-> <<>>, stderr |-> r.err, returncode |-> 1]
              ELSE [stdout |-> <<r.digest>>, stderr |-> "", returncode |-> 0]))

\* vars(parser.parse_args(args)) for the command line that gives the options
\* of cfg: the patterns separated by blanks, --properties left out for the
\* default properties
CommandLine(c, jobs, list) ==
    [list |-> list,
     directory |-> Str(<<DOT>>),
     algorithm |-> c.algorithm,
     match |-> <<"str", Join(Str(<<SPACE>>), c.match)>>,
     ignore |-> IF c.ignore = <<>> THEN None ELSE <<"str", Join(Str(<<SPACE>>), c.ignore)>>,
     ignore_hidden |-> FALSE,
     ignore_extensions |-> None,
     empty_dirs |-> c.empty_dirs,
     linked_dirs |-> c.linked_dirs,
     linked_files |-> c.linked_files,
     properties |-> IF c.entry_properties = DefaultConfig.entry_properties THEN None
                    ELSE List(c.entry_properties),
     allow_cyclic_links |-> c.allow_cyclic_links,
     chunk_size |-> c.chunk_size,
     jobs |-> jobs]

\* the configurations that a command line can give
Expressible(c) ==
    /\ isinstance(c.algorithm, "str")
    /\ isinstance(c.allow_cyclic_links, "bool")
    /\ c.entry_properties # <<>>

NoProcess == [args |-> <<>>, stdout |-> <<>>, stderr |-> "", returncode |-> -1]

Init ==
    /\ \/ fs \in FileSystems /\ cfg \in Configs
       \/ fs \in DeepTrees /\ cfg \in FlagConfigs
       \/ fs \in LockedTrees /\ cfg = DefaultConfig
    /\ order \in Orders
    /\ pc = "start"
    /\ res = NoOutcome
    /\ root_node = <<>>
    /\ real_paths = <<>>
    /\ file_hashes = <<>>
    /\ res_mp = NoOutcome
    /\ listing = NoListing
    /\ cli = NoProcess
    /\ pool = NoPool

\* dirhash(..., jobs=1)
Dirhash ==
    /\ pc = "start"
    /\ res' = dirhash_sequential(fs, order, cfg)
    /\ pc' = "first_pass"
    /\ UNCHANGED <<fs, order, cfg, root_node, real_paths, file_hashes, res_mp, listing, cli, pool>>

\* dirhash(..., jobs>1) up to real_paths = list(real_paths)
FirstPass ==
    /\ pc = "first_pass"
    /\ IF Protocol_error(cfg.entry_properties, cfg.allow_cyclic_links) # ""
       THEN /\ res_mp' = Outcome("ValueError", <<>>, NoState)
            /\ pc' = "list"
            /\ UNCHANGED <<root_node, real_paths>>
       ELSE \E r \in {first_pass(fs, order, cfg)} :
            IF r.err # ""
            THEN /\ res_mp' = Outcome(r.err, <<>>, NoState)
                 /\ pc' = "list"
                 /\ UNCHANGED <<root_node, real_paths>>
            ELSE /\ root_node' = r.val
                 /\ \E o \in Orders : real_paths' = SelectSeq(o, LAMBDA n : n \in r.st.real_paths)
                 /\ pc' = "pool"
                 /\ UNCHANGED res_mp
    /\ UNCHANGED <<fs, order, cfg, res, file_hashes, listing, cli, pool>>

\* file_hashes = _parmap(...) with jobs > 1: pool = Pool(jobs), and pool.map
\* hands the inputs to the worker processes
Parmap ==
    /\ pc = "pool"
    /\ \E jobs \in JobCounts : pool' = Pool(jobs)
    /\ pc' = "map"
    /\ UNCHANGED <<fs, order, cfg, res, root_node, real_paths, file_hashes, res_mp, listing, cli>>

\* a worker process that is idle takes an input that no worker has taken
WorkerTakes ==
    /\ pc = "map"
    /\ Cardinality(pool.running) < pool.jobs
    /\ \E i \in DOMAIN real_paths \ (pool.running \cup DOMAIN pool.results) :
           pool' = [pool EXCEPT !.running = pool.running \cup {i}]
    /\ UNCHANGED <<fs, order, cfg, pc, res, root_node, real_paths, file_hashes, res_mp, listing,
                   cli>>

\* a worker process is through with func(element): _get_filehash returned
\* the digest of the file or raised
WorkerReturns ==
    /\ pc = "map"
    /\ \E i \in pool.running :
           \E r \in {HashFile(fs, real_paths[i], _get_hasher_factory(cfg.algorithm).val,
                              cfg.chunk_size)} :
               pool' = [pool EXCEPT !.running = pool.running \ {i},
                                    !.done = Append(pool.done, i),
                                    !.results = [j \in DOMAIN pool.results \cup {i} |->
                                                    IF j = i THEN r ELSE pool.results[j]]]
    /\ UNCHANGED <<fs, order, cfg, pc, res, root_node, real_paths, file_hashes, res_mp, listing,
                   cli>>

\* pool.map returns without waiting for the workers (as map_async does); the
\* result of an input that is not done is still empty
PoolReturn_async ==
    /\ pc = "map"
    /\ LET failed == SelectSeq(pool.done, LAMBDA i : pool.results[i].err # "")
       IN  IF failed # <<>>
           THEN /\ res_mp' = Outcome(pool.results[failed[1]].err, <<>>, NoState)
                /\ pc' = "list"
                /\ UNCHANGED file_hashes
           ELSE /\ file_hashes' = [i \in DOMAIN real_paths |->
                                      IF i \in DOMAIN pool.results THEN pool.results[i].val
                                      ELSE <<>>]
                /\ pc' = "second_pass"
                /\ UNCHANGED res_mp
    /\ pool' = NoPool
    /\ UNCHANGED <<fs, order, cfg, res, root_node, real_paths, listing, cli>>

\* pool.map returns the results in the order in which the workers finished
\* (as imap_unordered does)
PoolReturn_unordered ==
    /\ pc = "map"
    /\ Len(pool.done) = Len(real_paths)
    /\ LET failed == SelectSeq(pool.done, LAMBDA i : pool.results[i].err # "")
       IN  IF failed # <<>>
           THEN /\ res_mp' = Outcome(pool.results[failed[1]].err, <<>>, NoState)
                /\ pc' = "list"
                /\ UNCHANGED file_hashes
           ELSE /\ file_hashes' = [k \in DOMAIN real_paths |-> pool.results[pool.done[k]].val]
                /\ pc' = "second_pass"
                /\ UNCHANGED res_mp
    /\ pool' = NoPool
    /\ UNCHANGED <<fs, order, cfg, res, root_node, real_paths, listing, cli>>

\* pool.map returns when every input is done: the results in the order of the
\* inputs, or the exception of the input that failed first; pool.close()
PoolReturn ==
    /\ pc = "map"
    /\ Len(pool.done) = Len(real_paths)
    /\ LET failed == SelectSeq(pool.done, LAMBDA i : pool.results[i].err # "")
       IN  IF failed # <<>>
           THEN /\ res_mp' = Outcome(pool.results[failed[1]].err, <<>>, NoState)
                /\ pc' = "list"
                /\ UNCHANGED file_hashes
           ELSE /\ file_hashes' = [i \in DOMAIN real_paths |-> pool.results[i].val]
                /\ pc' = "second_pass"
                /\ UNCHANGED res_mp
    /\ pool' = NoPool
    /\ UNCHANGED <<fs, order, cfg, res, root_node, real_paths, listing, cli>>

\* real_path_to_hash = dict(zip(...)); root_node.apply(...)
SecondPass ==
    /\ pc = "second_pass"
    /\ res_mp' = second_pass(fs, order, cfg, root_node, dict_zip(real_paths, file_hashes))
    /\ pc' = "list"
    /\ UNCHANGED <<fs, order, cfg, res, root_node, real_paths, file_hashes, listing, cli, pool>>

\* included_paths(...)
IncludedPaths ==
    /\ pc = "list"
    /\ listing' = included_paths(fs, order, cfg)
    /\ pc' = "done"
    /\ UNCHANGED <<fs, order, cfg, res, root_node, real_paths, file_hashes, res_mp, cli, pool>>

\* the command `dirhash` run on the same tree, with the options of cfg, with
\* and without --jobs 2 and --list
Main ==
    /\ pc = "done"
    /\ Expressible(cfg)
    /\ \E jobs \in {1, 2}, list \in BOOLEAN, listed \in Orders :
           \E args \in {CommandLine(cfg, jobs, list)} :
               \E r \in {main(fs, order, args, listed)} :
                   cli' = [args |-> args, stdout |-> r.stdout, stderr |-> r.stderr,
                           returncode |-> r.returncode]
    /\ pc' = "exit"
    /\ UNCHANGED <<fs, order, cfg, res, root_node, real_paths, file_hashes, res_mp, listing, pool>>

Next ==
    \/ Dirhash \/ FirstPass
    \/ Parmap \/ WorkerTakes \/ WorkerReturns \/ PoolReturn
    \/ SecondPass \/ IncludedPaths \/ Main

Spec == Init /\ [][Next]_vars

(***************************************************************************)
(* Helpers of the statements                                               *)
(***************************************************************************)
\* the directories above entry n
Above(f, n) ==
    LET up[m \in AllNodes] == IF m = Root THEN {} ELSE {f.ent[m].parent} \cup up[f.ent[m].parent]
    IN  up[n]

\* a symlink to a directory above itself, met by every walk that follows links
LinksBack(f, n) == n \in Present(f) /\ f.ent[n].kind = "link" /\ f.ent[n].target \in Above(f, n)

HasLinkBack(f) == \E n \in Nodes : LinksBack(f, n)

SameOutcome(a, b) == a.err = b.err /\ a.digest = b.digest

EmptyDigest == hexdigest(hasher_factory(<<>>))

(***************************************************************************)
(* C1: dirhash with jobs > 1 gives the same outcome as dirhash with        *)
(* jobs = 1: the same digest, or the same error, for every tree and        *)
(* configuration, trees with allowed cyclic links included.                *)
(***************************************************************************)
C1_ParallelEqualsSequential ==
    pc \in {"list", "done"} => SameOutcome(res_mp, res)

(***************************************************************************)
(* C2: the outcome of dirhash does not depend on the order in which the    *)
(* file system lists the entries of the directories: under every           *)
(* permutation of the listing order the walk succeeds or fails alike and   *)
(* a digest, if any, is the same.                                          *)
(***************************************************************************)
C2_OrderIndependent ==
    pc = "first_pass" =>
        \A o \in Perms(Nodes) :
            LET r == dirhash_sequential(fs, o, cfg)
            IN  (r.err = "") = (res.err = "") /\ r.digest = res.digest

\* a digest was computed for a directory with at least two included entries
C2_Witness ==
    /\ pc = "first_pass"
    /\ res.err = ""
    /\ Cardinality(res.folded) >= 2
    /\ set(cfg.entry_properties) = {"name", "data"}

(***************************************************************************)
(* C3: with allow_cyclic_links = TRUE dirhash and included_paths raise     *)
(* neither a recursion error nor an internal error, whatever symlinks to   *)
(* directories the tree holds (a root without anything to hash may still   *)
(* be refused).                                                            *)
(***************************************************************************)
C3_NoErrorWhenCyclicAllowed ==
    (pc = "done" /\ cfg.allow_cyclic_links = True) =>
        /\ res.err \in {"", "ValueError"}
        /\ listing.err = ""

(***************************************************************************)
(* C4: with allow_cyclic_links = FALSE a walk that meets a followed        *)
(* symlink to a directory above itself raises SymlinkRecursionError and    *)
(* returns no digest and no listing.                                       *)
(***************************************************************************)
C4_RecursionErrorRaised ==
    (pc = "done" /\ cfg.allow_cyclic_links = False /\ cfg.linked_dirs /\ HasLinkBack(fs)) =>
        /\ res.err = "SymlinkRecursionError"
        /\ res_mp.err = "SymlinkRecursionError"
        /\ listing.err = "SymlinkRecursionError"

\* the path of entry n that passes through no symlink above n
PhysPath(f, n) ==
    LET pp[m \in AllNodes] == IF m = Root THEN from_root ELSE _join(f, pp[f.ent[m].parent], m)
    IN  pp[n]

Range(seq) == {seq[i] : i \in DOMAIN seq}

\* 'rel/.' or '.': the string of a directory leaf
IsDirLeafString(s) ==
    /\ Len(s) >= 1
    /\ s[Len(s)] = <<0, DOT>>
    /\ Len(s) = 1 \/ s[Len(s) - 1] = <<0, SLASH>>

\* the directory nodes of a stored tree, the root included
RECURSIVE DirNodesOf(_)
DirNodesOf(node) ==
    {node} \cup (IF node.type # "DirNode" THEN {}
                 ELSE UNION {DirNodesOf(node.directories[i]) : i \in DOMAIN node.directories})

\* the file paths of a stored tree
FilePathsOf(node) ==
    UNION {Range(d.files) : d \in {x \in DirNodesOf(node) : x.type = "DirNode"}}

\* the entries a stored tree holds, by any of their paths
TreeEntries(node) ==
    ({EntryOf(d.path) : d \in DirNodesOf(node)} \cup {EntryOf(p) : p \in FilePathsOf(node)}) \ {Root}

\* a directory without an included file and without an included non-empty
\* subdirectory, in a tree stored with the empty directories kept
RECURSIVE EmptyDir(_)
EmptyDir(node) ==
    /\ node.type = "DirNode"
    /\ node.files = <<>>
    /\ \A i \in DOMAIN node.directories : EmptyDir(node.directories[i])

WithEmptyDirs(c, b) == [c EXCEPT !.empty_dirs = b]

(***************************************************************************)
(* C5: whenever dirhash succeeds, included_paths with the same filter      *)
(* arguments succeeds and names, once each, exactly the leaves that        *)
(* dirhash folded into the digest (in either mode); included_paths reads   *)
(* no file content.                                                        *)
(***************************************************************************)
C5_ListingIsWhatIsHashed ==
    (pc = "done" /\ res.err = "") =>
        /\ listing.err = ""
        /\ Range(listing.paths) = res.folded
        /\ res_mp.err = "" => Range(listing.paths) = res_mp.folded
        /\ \A i, j \in DOMAIN listing.paths : listing.paths[i] = listing.paths[j] => i = j
        /\ listing.reads = <<>>

\* a digest over a file and a directory leaf, and their listing
C5_Witness ==
    /\ pc = "done"
    /\ res.err = ""
    /\ \E s \in res.folded : IsDirLeafString(s)
    /\ \E s \in res.folded : ~IsDirLeafString(s)
    /\ res.reads # <<>>
    /\ Len(listing.paths) >= 2

NothingToHash(f, c) ==
    \A n \in Present(f) :
        \/ f.ent[n].kind = "dir"
        \/ ~MatchPatterns_include(f, MakeFilter(c), PhysPath(f, n))

NothingIncluded(f, c) ==
    \A n \in Present(f) : ~MatchPatterns_include(f, MakeFilter(c), PhysPath(f, n))

(***************************************************************************)
(* C6 as stated: on a root without an included file and without an         *)
(* included non-empty subdirectory (here: a root that holds nothing but    *)
(* directories and excluded entries), dirhash raises ValueError in both    *)
(* modes when empty_dirs = FALSE and returns the digest of the empty       *)
(* string when empty_dirs = TRUE.                                          *)
(***************************************************************************)
C6_EmptyRootAsStated ==
    (pc = "done" /\ NothingToHash(fs, cfg)) =>
        IF ~cfg.empty_dirs
        THEN res.err = "ValueError" /\ res_mp.err = "ValueError"
        ELSE /\ res.err = "" /\ res.digest = EmptyDigest
             /\ res_mp.err = "" /\ res_mp.digest = EmptyDigest

(***************************************************************************)
(* C6, amended: with empty_dirs = FALSE a root without an included file    *)
(* and without an included non-empty subdirectory is refused with          *)
(* ValueError in both modes, and no successful call returns the digest of  *)
(* the empty descriptor; with empty_dirs = TRUE a root without any         *)
(* included entry gets the digest of the empty string, and a root that     *)
(* holds empty directories gets a digest of the descriptor that lists      *)
(* them.                                                                   *)
(***************************************************************************)
C6_EmptyRoot ==
    pc = "done" =>
        /\ (~cfg.empty_dirs /\ NothingToHash(fs, cfg)) =>
              res.err = "ValueError" /\ res_mp.err = "ValueError"
        /\ (~cfg.empty_dirs /\ res.err = "") => res.digest # EmptyDigest
        /\ (~cfg.empty_dirs /\ res_mp.err = "") => res_mp.digest # EmptyDigest
        /\ (cfg.empty_dirs /\ NothingIncluded(fs, cfg)) =>
              /\ res.err = "" /\ res.digest = EmptyDigest
              /\ res_mp.err = "" /\ res_mp.digest = EmptyDigest
        /\ (cfg.empty_dirs /\ NothingToHash(fs, cfg) /\ ~NothingIncluded(fs, cfg)) =>
              /\ res.err = "" /\ res.digest # EmptyDigest
              /\ res_mp.err = "" /\ res_mp.digest # EmptyDigest

\* a root that holds an excluded file next to an empty directory is refused
C6_Witness ==
    /\ pc = "done"
    /\ ~cfg.empty_dirs
    /\ NothingToHash(fs, cfg)
    /\ \E n \in Present(fs) : fs.ent[n].kind = "file"
    /\ \E n \in Present(fs) : fs.ent[n].kind = "dir"
    /\ res.err = "ValueError"
    /\ res_mp.err = "ValueError"

\* the tree that the walk stores, which no algorithm argument changes
StoredTree(f, o, c) == first_pass(f, o, [c EXCEPT !.algorithm = DefaultConfig.algorithm])

PatternLists ==
    {<<>>, <<Str(<<STAR>>)>>, <<Str(<<98>>)>>,
     <<Str(<<STAR>>), Str(<<BANG, 98>>)>>,
     <<Str(<<BANG, 98>>), Str(<<STAR>>)>>,
     <<Str(<<STAR>>), Str(<<BANG, 97>>), Str(<<98>>)>>,
     <<Str(<<STAR>>), Str(<<98>>), Str(<<BANG, 97>>)>>}

C8_Decision(f, pats, ld, lf, p) ==
    LET n == EntryOf(p)
        link == f.ent[n].kind = "link"
        todir == KindOf(f, p.real) = "dir"
        eff == IF pats = <<>> THEN <<Str(<<STAR>>)>> ELSE pats
        hit(i) == GlobMatches(PatternGlob(eff[i]), Components(f, p))
    IN  IF link /\ todir /\ ~ld THEN FALSE
        ELSE IF link /\ ~todir /\ ~lf THEN FALSE
        ELSE IF todir THEN TRUE
        ELSE \E i \in DOMAIN eff :
                /\ hit(i)
                /\ eff[i][1] # <<0, BANG>>
                /\ \A j \in DOMAIN eff : j > i => ~hit(j)

NamePool == {DefaultName(n) : n \in 1..(MaxNodes + 1)}

Renamings(f) ==
    {nm \in [Nodes -> NamePool] :
        /\ \A n \in Nodes \ Present(f) : nm[n] = f.name[n]
        /\ \A n, m \in Present(f) : (n # m /\ f.ent[n].parent = f.ent[m].parent) => nm[n] # nm[m]}

C10_Sensitive ==
    (pc = "done" /\ res.err = "" /\ res_mp.err = "") =>
        /\ "data" \in set(cfg.entry_properties) =>
              \A p \in FilePathsOf(root_node) : \A c \in Contents \ {fs.ent[p.real].data} :
                  LET r == dirhash_sequential([fs EXCEPT !.ent[p.real].data = c], order, cfg)
                  IN  r.err = "" /\ r.digest # res.digest
        /\ "name" \in set(cfg.entry_properties) =>
              \A n \in TreeEntries(root_node) :
                  \A new \in NamePool \ {fs.name[m] : m \in {k \in Present(fs) :
                                                  fs.ent[k].parent = fs.ent[n].parent}} :
                      LET r == dirhash_sequential([fs EXCEPT !.name[n] = new], order, cfg)
                      IN  r.err # "" \/ r.digest # res.digest

\* a digest over names and data of a tree with a file in a directory
C10_Witness ==
    /\ pc = "done"
    /\ res.err = ""
    /\ res_mp.err = ""
    /\ set(cfg.entry_properties) = {"name", "data"}
    /\ \E p \in FilePathsOf(root_node) : Len(p.rel) = 2
    /\ Cardinality(TreeEntries(root_node)) >= 2

FileNodes(f) == {n \in Present(f) : f.ent[n].kind = "file"}

WithContents(f, d) ==
    [f EXCEPT !.ent = [n \in Nodes |-> IF n \in DOMAIN d THEN [f.ent[n] EXCEPT !.data = d[n]]
                                       ELSE f.ent[n]]]

(***************************************************************************)
(* C11: with entry_properties = {name} the outcome of dirhash is the same  *)
(* whatever the files of the tree contain: every assignment of contents    *)
(* to the files of a tree with the same entries and names gives the same   *)
(* digest.                                                                 *)
(***************************************************************************)
C11_ContentIgnored ==
    (pc = "first_pass" /\ set(cfg.entry_properties) = {"name"}) =>
        \A d \in [FileNodes(fs) -> Contents] :
            SameOutcome(dirhash_sequential(WithContents(fs, d), order, cfg), res)

\* a digest of names only over a tree whose files were read
C11_Witness ==
    /\ pc = "first_pass"
    /\ set(cfg.entry_properties) = {"name"}
    /\ res.err = ""
    /\ Len(res.reads) >= 2

ChildrenOf(f, t) == {c \in Present(f) : f.ent[c].parent = t}

FileLink(f, n) ==
    n \in Present(f) /\ f.ent[n].kind = "link" /\ KindOf(f, f.ent[n].target) = "file"

DirLink(f, n) ==
    n \in Present(f) /\ f.ent[n].kind = "link" /\ KindOf(f, f.ent[n].target) = "dir"

\* the links whose target the trees of the model can hold a second time
HasCopy(f, n) ==
    \/ FileLink(f, n)
    \/ /\ DirLink(f, n)
       /\ f.ent[n].target \notin Above(f, n)
       /\ \/ ChildrenOf(f, f.ent[n].target) = {}
          \/ /\ MaxNodes \notin Present(f)
             /\ \E c \in FileNodes(f) : ChildrenOf(f, f.ent[n].target) = {c}

\* the tree with a regular copy of the target in the place of link n; the
\* copy of a file can be read if the file can
RegularCopy(f, n) ==
    LET t == f.ent[n].target IN
    IF FileLink(f, n)
    THEN [f EXCEPT !.ent[n] = [kind |-> "file", parent |-> f.ent[n].parent,
                               data |-> f.ent[t].data, target |-> Root],
                   !.unreadable = IF t \in f.unreadable THEN @ \cup {n} ELSE @]
    ELSE IF ChildrenOf(f, t) = {}
    THEN [f EXCEPT !.ent[n] = [kind |-> "dir", parent |-> f.ent[n].parent,
                               data |-> <<>>, target |-> Root]]
    ELSE LET c == CHOOSE c \in ChildrenOf(f, t) : TRUE IN
         [f EXCEPT !.ent[n] = [kind |-> "dir", parent |-> f.ent[n].parent,
                               data |-> <<>>, target |-> Root],
                   !.ent[MaxNodes] = [kind |-> "file", parent |-> n,
                                      data |-> f.ent[c].data, target |-> Root],
                   !.name[MaxNodes] = f.name[c],
                   !.unreadable = IF c \in f.unreadable THEN @ \cup {MaxNodes} ELSE @]

\* entry n is in the tree that the walk of f under c stores
Hashed(f, o, c, n) ==
    \E r \in {first_pass(f, o, c)} : r.err = "" /\ n \in TreeEntries(r.val)

(***************************************************************************)
(* C12: with linked_files and linked_dirs true and 'is_link' not among     *)
(* the entry properties, a tree with a symlink to a file or directory has  *)
(* the outcome of the tree that holds a regular copy of the target under   *)
(* the name of the link; with 'is_link' selected the digests of the two    *)
(* trees differ when the link is hashed; and switching the links off       *)
(* (linked_files or linked_dirs false) changes the outcome when a link of  *)
(* that kind is hashed.                                                    *)
(***************************************************************************)
C12_LinkStatus ==
    (pc = "first_pass" /\ cfg.linked_files /\ cfg.linked_dirs) =>
        \A n \in Present(fs) :
            /\ (HasCopy(fs, n) /\ "is_link" \notin set(cfg.entry_properties)) =>
                  SameOutcome(dirhash_sequential(RegularCopy(fs, n), order, cfg), res)
            /\ (HasCopy(fs, n) /\ "is_link" \in set(cfg.entry_properties)
                  /\ res.err = "" /\ Hashed(fs, order, cfg, n)) =>
                  \E r \in {dirhash_sequential(RegularCopy(fs, n), order, cfg)} :
                      r.err = "" /\ r.digest # res.digest
            /\ (FileLink(fs, n) /\ res.err = "" /\ Hashed(fs, order, cfg, n)) =>
                  \E r \in {dirhash_sequential(fs, order, [cfg EXCEPT !.linked_files = FALSE])} :
                      r.err # "" \/ r.digest # res.digest
            /\ (DirLink(fs, n) /\ res.err = "" /\ Hashed(fs, order, cfg, n)) =>
                  \E r \in {dirhash_sequential(fs, order, [cfg EXCEPT !.linked_dirs = FALSE])} :
                      r.err # "" \/ r.digest # res.digest

\* a digest with 'is_link' over a tree with a hashed symlink to a file
C12_Witness ==
    /\ pc = "first_pass"
    /\ cfg.linked_files /\ cfg.linked_dirs
    /\ "is_link" \in set(cfg.entry_properties)
    /\ res.err = ""
    /\ \E n \in Present(fs) : FileLink(fs, n) /\ Hashed(fs, order, cfg, n)

WithIsLink(c) == [c EXCEPT !.entry_properties = Append(@, "is_link")]

\* the root of the tree stored for f under c holds an entry
RootHoldsEntry(f, o, c) ==
    \E r \in {first_pass(f, o, c)} :
        r.err = "" /\ (r.val.files # <<>> \/ r.val.directories # <<>>)

NoDuplicates(seq) == \A i, j \in DOMAIN seq : seq[i] = seq[j] => i = j

\* the digest of the content of every file, by real path
DigestOfRealPath(f, c) ==
    [n \in FileNodes(f) |-> HashFile(f, n, getattr_hashlib(<<"str", "md5">>), c.chunk_size).val]

\* the fold of the stored tree in which each file entry has the digest of
\* its real path
DigestByRealPath(f, o, c) ==
    With(first_pass(f, o, c), LAMBDA r :
         IF r.err # "" THEN Outcome(r.err, <<>>, NoState)
         ELSE second_pass(f, o, c, r.val, DigestOfRealPath(f, c)))

(***************************************************************************)
(* C14: within one call every real file path is read and hashed at most    *)
(* once, whatever the number of entries that resolve to it: the reads of   *)
(* the sequential mode and the real paths handed to the pool hold no path  *)
(* twice, the pool returns one digest per path, and each mode returns the  *)
(* digest in which every file entry has the digest of its real path.       *)
(***************************************************************************)
C14_HashedOnce ==
    /\ (pc = "first_pass" /\ res.err = "") =>
          /\ NoDuplicates(res.reads)
          /\ \E ref \in {DigestByRealPath(fs, order, cfg)} :
                 ref.err = "" => ref.digest = res.digest
    /\ (pc \in {"pool", "second_pass"}) =>
          /\ NoDuplicates(real_paths)
          /\ {p.real : p \in FilePathsOf(root_node)} = Range(real_paths)
    /\ (pc = "second_pass") =>
          /\ Len(file_hashes) = Len(real_paths)
          /\ \A i \in DOMAIN real_paths :
                 file_hashes[i] = HashFile(fs, real_paths[i], getattr_hashlib(<<"str", "md5">>),
                                           cfg.chunk_size).val
    /\ (pc = "list" /\ res_mp.err = "") =>
          \E ref \in {DigestByRealPath(fs, order, cfg)} :
              ref.err = "" /\ ref.digest = res_mp.digest

\* both modes have hashed a tree in which two entries resolve to one file
C14_Witness ==
    /\ pc = "list" /\ res.err = "" /\ res_mp.err = ""
    /\ "data" \in set(cfg.entry_properties)
    /\ Cardinality(FilePathsOf(root_node)) > Len(real_paths)
    /\ Len(res.reads) = Len(real_paths)
    /\ Len(real_paths) >= 1

Refused(c) ==
    \/ \E i \in DOMAIN c.entry_properties :
           c.entry_properties[i] \notin {"name", "data", "is_link"}
    \/ \A i \in DOMAIN c.entry_properties : c.entry_properties[i] \notin {"name", "data"}
    \/ c.allow_cyclic_links[1] # "bool"

MaxTokens == 3

\* the token lists of up to MaxTokens tokens with the tokens of list
Rearranged(list) ==
    {l \in UNION {[1..k -> set(list)] : k \in 1..MaxTokens} : set(l) = set(list)}

(***************************************************************************)
(* C15: Protocol refuses, with ValueError, an entry_properties argument    *)
(* with a token outside {name, data, is_link} or with neither 'name' nor   *)
(* 'data', and an allow_cyclic_links argument that is not a bool; dirhash  *)
(* raises this error in both modes with no tree stored, no real path       *)
(* collected and no file hashed, whatever the tree holds; and a valid      *)
(* entry_properties argument gives the same outcome with its tokens in any *)
(* order and any repetition.                                               *)
(***************************************************************************)
C15_ProtocolValidation ==
    /\ (pc # "start") =>
          (Refused(cfg) <=> Protocol_error(cfg.entry_properties, cfg.allow_cyclic_links) # "")
    /\ (pc # "start" /\ Refused(cfg)) =>
          /\ res.err = "ValueError" /\ res.reads = <<>> /\ res.folded = {}
          /\ pc # "pool" /\ pc # "second_pass"
          /\ root_node = <<>> /\ real_paths = <<>> /\ file_hashes = <<>>
    /\ (pc \in {"list", "done"} /\ Refused(cfg)) => res_mp.err = "ValueError"
    /\ (pc = "first_pass" /\ ~Refused(cfg)) =>
          \A l \in Rearranged(cfg.entry_properties) :
              SameOutcome(dirhash_sequential(fs, order, [cfg EXCEPT !.entry_properties = l]), res)

\* a refused argument for a tree whose walk would raise another error, and
\* both modes have returned
C15_Witness ==
    /\ pc = "list" /\ Refused(cfg)
    /\ \E r \in {first_pass(fs, order, DefaultConfig)} : r.err \notin {"", "ValueError"}

\* a digest for a valid argument with a repeated token
C15_RepeatedWitness ==
    /\ pc = "first_pass" /\ res.err = "" /\ Len(res.reads) >= 2
    /\ Len(cfg.entry_properties) > Cardinality(set(cfg.entry_properties))

KnownName(a) ==
    a \in {<<"str", n>> : n \in {"md5", "sha1", "sha224", "sha256", "sha384", "sha512", "blake2b"}}

\* constructible from initial data, and the result has update and hexdigest
PassesCheck(a) ==
    a[1] = "type" /\ 1 \in a[2].arities /\ {"update", "hexdigest"} \subseteq a[2].methods

(***************************************************************************)
(* C16: an algorithm that is neither a known name nor a class passing the  *)
(* factory check makes dirhash raise ValueError with nothing scanned; a    *)
(* guaranteed name resolves to the hashlib constructor of that name; a     *)
(* class that passes the check is returned unchanged and then serves every *)
(* file hash and directory hash of the call: no call of the factory fails. *)
(***************************************************************************)
C16_HasherFactory ==
    (pc \in {"list", "done"} /\ ~Refused(cfg)) =>
        /\ (~KnownName(cfg.algorithm) /\ ~PassesCheck(cfg.algorithm)) =>
              /\ res.err = "ValueError" /\ res_mp.err = "ValueError"
              /\ root_node = <<>> /\ real_paths = <<>> /\ file_hashes = <<>>
        /\ cfg.algorithm \in {<<"str", "md5">>, <<"str", "sha256">>} =>
              _get_hasher_factory(cfg.algorithm).val[2] =
                  [module |-> "hashlib", name |-> cfg.algorithm[2],
                   arities |-> {0, 1}, methods |-> {"update", "hexdigest"}]
        /\ PassesCheck(cfg.algorithm) =>
              /\ _get_hasher_factory(cfg.algorithm) = [err |-> "", val |-> cfg.algorithm]
              /\ res.err # "TypeError" /\ res_mp.err # "TypeError"

\* the hash of the whole content of a file
WholeContentHash(f, n) == hexdigest(update(hasher_factory(<<>>), f.ent[n].data))

(***************************************************************************)
(* C17: the digest does not depend on chunk_size: for a fixed tree and     *)
(* configuration every chunk_size gives the outcome of every other, and    *)
(* the digest of each file is the hash of its whole content.               *)
(***************************************************************************)
C17_ChunkSizeIrrelevant ==
    (pc = "first_pass" /\ _get_hasher_factory(cfg.algorithm).err = "") =>
        \A c \in ChunkSizes :
            /\ SameOutcome(dirhash_sequential(fs, order, [cfg EXCEPT !.chunk_size = c]), res)
            /\ \A n \in FileNodes(fs) :
                   \E h \in {HashFile(fs, n, _get_hasher_factory(cfg.algorithm).val, c)} :
                       h.err = "" => h.val = WholeContentHash(fs, n)

\* for chunk sizes of at least one byte and for -1 the digest is that of the
\* whole content (the part of C17 that the code keeps)
C17_PositiveChunkSizes ==
    (pc = "first_pass" /\ res.err = "" /\ cfg.chunk_size # 0) =>
        \A c \in ChunkSizes \ {0} :
            /\ \A d \in [FileNodes(fs) -> Contents] :
                   SameOutcome(dirhash_sequential(WithContents(fs, d), order,
                                                  [cfg EXCEPT !.chunk_size = c]),
                               dirhash_sequential(WithContents(fs, d), order, cfg))
            /\ \A d \in Contents :
                   hexdigest(ReadChunks(d, 1, c, hasher_factory(<<>>)))
                       = hexdigest(update(hasher_factory(<<>>), d))

\* 'True' or 'False': the text of a bool
BoolText(b) == IF b THEN Str(<<84, 114, 117, 101>>) ELSE Str(<<70, 97, 108, 115, 101>>)

\* the strings of one child, as the description of the protocol gives them
StatedEntryStrings(f, c, path, isdir, digest) ==
    (IF isdir THEN <<_DIRHASH \o Str(<<COLON>>) \o digest>>
     ELSE IF "data" \in set(c.entry_properties) THEN <<DATA \o Str(<<COLON>>) \o digest>>
     ELSE <<>>)
    \o (IF "name" \in set(c.entry_properties)
        THEN <<NAME \o Str(<<COLON>>) \o f.name[EntryOf(path)]>> ELSE <<>>)
    \o (IF "is_link" \in set(c.entry_properties)
        THEN <<IS_LINK \o Str(<<COLON>>) \o BoolText(is_symlink(f, path))>> ELSE <<>>)

\* the digest of a stored directory node, as the description gives it
RECURSIVE StatedDigest(_, _, _)
StatedDigest(f, c, node) ==
    LET dirs == [i \in DOMAIN node.directories |->
                    Join(Str(<<NUL>>), Sorted(StatedEntryStrings(f, c, node.directories[i].path,
                        TRUE, StatedDigest(f, c, node.directories[i]))))]
        files == [i \in DOMAIN node.files |->
                    Join(Str(<<NUL>>), Sorted(StatedEntryStrings(f, c, node.files[i],
                        FALSE, HashFile(f, node.files[i].real,
                                        _get_hasher_factory(c.algorithm).val, c.chunk_size).val)))]
    IN  hexdigest(update(hasher_factory(<<>>),
                         encode_utf8(Join(Str(<<NUL, NUL>>), Sorted(dirs \o files)))))

\* every directory of the stored tree is a regular directory node
RegularTree(node) == \A d \in DirNodesOf(node) : d.type = "DirNode"

(***************************************************************************)
(* C18: the digest of a tree of regular directory nodes is the hash of the *)
(* UTF-8 bytes of the descriptor built from 'dirhash:<digest>' for a       *)
(* directory, 'data:<digest>' for a file when 'data' is selected,          *)
(* 'name:<base name>' and 'is_link:<True|False>' when selected, the        *)
(* strings of a child sorted and joined by one NUL, the children sorted    *)
(* and joined by two NULs; an empty directory has the digest of the empty  *)
(* descriptor.                                                             *)
(***************************************************************************)
C18_DescriptorAsStated ==
    (pc = "first_pass" /\ res.err = "") =>
        \E r \in {first_pass(fs, order, cfg)} :
            RegularTree(r.val) => res.digest = StatedDigest(fs, cfg, r.val)

\* without 'is_link' the digest is the stated one (the part of C18 that the
\* code keeps)
C18_WithoutIsLink ==
    (pc = "first_pass" /\ res.err = "" /\ "is_link" \notin set(cfg.entry_properties)) =>
        \E r \in {first_pass(fs, order, cfg)} :
            RegularTree(r.val) => res.digest = StatedDigest(fs, cfg, r.val)

\* sep occurs in string s
Occurs(sep, s) == \E i \in 1..(Len(s) - Len(sep) + 1) : SubSeq(s, i, i + Len(sep) - 1) = sep

\* s.split(sep), and no part for the empty string
RECURSIVE Split(_, _)
Split(s, sep) ==
    IF s = <<>> THEN <<>>
    ELSE IF ~Occurs(sep, s) THEN <<s>>
    ELSE LET i == CHOOSE j \in 1..Len(s) :
                      /\ SubSeq(s, j, j + Len(sep) - 1) = sep
                      /\ \A k \in 1..(j - 1) : SubSeq(s, k, k + Len(sep) - 1) # sep
         IN  <<SubSeq(s, 1, i - 1)>> \o Split(SubSeq(s, i + Len(sep), Len(s)), sep)

MaxChildren == 2

\* the (path, digest) pairs that a directory of the tree may hold as children
ChildPool(f) ==
    {<<PhysPath(f, n), d>> :
        n \in Present(f),
        d \in {EmptyDigest} \cup {hexdigest(update(hasher_factory(<<>>), c)) : c \in Contents}}

\* the directory nodes with up to MaxChildren children of the pool
PoolNodes(f) ==
    {DirNode(from_root, SelectSeq(l, LAMBDA e : is_dir(f, e[1])),
                        SelectSeq(l, LAMBDA e : ~is_dir(f, e[1]))) :
        l \in UNION {[1..k -> ChildPool(f)] : k \in 0..MaxChildren}}

\* one state for each tree and each accepted protocol
PoolCase ==
    /\ pc = "first_pass" /\ ~Refused(cfg) /\ order[1] = 1
    /\ cfg = [DefaultConfig EXCEPT !.entry_properties = cfg.entry_properties,
                                   !.empty_dirs = cfg.empty_dirs,
                                   !.allow_cyclic_links = cfg.allow_cyclic_links]

\* the serialized entries of a directory node
EntryDescriptors(f, protocol, node) ==
    LET entries == node.directories \o node.files
    IN  [i \in DOMAIN entries |->
            _get_entry_descriptor(_get_entry_properties(f, protocol, entries[i][1], entries[i][2]))]

(***************************************************************************)
(* C19: the separator between entries, two NUL characters, occurs in no    *)
(* serialized entry, and the descriptor of a directory determines the      *)
(* multiset of its serialized entries: splitting it at the separator gives *)
(* back the sorted entries, so that different multisets of entries never   *)
(* have the same descriptor.                                               *)
(***************************************************************************)
C19_SeparatorInjective ==
    PoolCase =>
        \A node \in PoolNodes(fs) :
            \E protocol \in {Protocol(cfg.entry_properties, cfg.allow_cyclic_links)} :
                /\ \A e \in Range(EntryDescriptors(fs, protocol, node)) :
                       ~Occurs(_entry_descriptor_separator, e)
                /\ Split(get_descriptor(fs, protocol, node), _entry_descriptor_separator)
                       = Sorted(EntryDescriptors(fs, protocol, node))

\* a tree with a file and a directory, whose pool holds nodes of two entries
\* with three properties each
C19_Witness ==
    /\ PoolCase
    /\ set(cfg.entry_properties) = {"name", "data", "is_link"}
    /\ \E n, m \in Present(fs) : fs.ent[n].kind = "file" /\ fs.ent[m].kind = "dir"
    /\ \E node \in PoolNodes(fs) : Len(node.directories) = 1 /\ Len(node.files) = 1

\* the arguments of get_match_patterns that are tried: None and lists of
\* patterns ('*', 'a', 'b', '!a', '.*', '.*/', '*.x') and of extensions
MatchObjects ==
    {None, List(<<>>), List(<<Str(<<97>>), Str(<<98>>)>>),
     List(<<Str(<<STAR>>), Str(<<BANG, 97>>)>>), List(<<Str(<<97>>), Str(<<97>>)>>)}

IgnoreObjects ==
    {None, List(<<Str(<<97>>)>>), List(<<Str(<<DOT, STAR>>)>>),
     List(<<Str(<<DOT, STAR, SLASH>>)>>), List(<<Str(<<STAR, DOT, 120>>), Str(<<97>>)>>),
     List(<<Str(<<97>>), Str(<<98>>), Str(<<97>>)>>)}

ExtensionObjects ==
    {None, List(<<Str(<<DOT, 120>>)>>), List(<<Str(<<120>>)>>),
     List(<<Str(<<120>>), Str(<<DOT, 121>>)>>), List(<<Str(<<120>>), Str(<<DOT, 120>>)>>)}

\* the items of an argument, None standing for the list given
ItemsOr(object, default) == IF object[1] = "NoneType" THEN default ELSE object[2]

\* '*.<ext>' for an extension given with or without its leading '.'
StatedExtensionPattern(e) ==
    Str(<<STAR, DOT>>) \o (IF e # <<>> /\ e[1] = <<0, DOT>> THEN Tail(e) ELSE e)

\* the patterns before the removal of duplicates, as the description lists them
StatedPatterns(match, ignore, ignore_extensions, ignore_hidden) ==
    LET ign == ItemsOr(ignore, <<>>)
               \o (IF ignore_hidden THEN <<Str(<<DOT, STAR>>), Str(<<DOT, STAR, SLASH>>)>>
                   ELSE <<>>)
               \o [i \in DOMAIN ItemsOr(ignore_extensions, <<>>) |->
                      StatedExtensionPattern(ItemsOr(ignore_extensions, <<>>)[i])]
    IN  ItemsOr(match, <<Str(<<STAR>>)>>) \o [i \in DOMAIN ign |-> Str(<<BANG>>) \o ign[i]]

\* the first position of item x in list l
FirstIndex(l, x) == CHOOSE i \in DOMAIN l : l[i] = x /\ \A j \in 1..(i - 1) : l[j] # x

\* r is l with the duplicates removed, each item at its first occurrence
FirstOccurrences(r, l) ==
    /\ NoDuplicates(r)
    /\ Range(r) = Range(l)
    /\ \A i, j \in DOMAIN r : i < j => FirstIndex(l, r[i]) < FirstIndex(l, r[j])

\* the patterns a call of dirhash may ignore: 'a', 'b', '*'
IgnoredPatterns == {Str(<<97>>), Str(<<98>>), Str(<<STAR>>)}

(***************************************************************************)
(* C20: get_match_patterns returns the match patterns (['*'] for None),    *)
(* then '!'+p for the explicit ignore patterns, for '.*' and '.*/' when    *)
(* ignore_hidden is true, and for '*.<ext>' for each extension, with the   *)
(* duplicates removed and each pattern at its first occurrence; and        *)
(* dirhash with ignore=[p] has the outcome of dirhash with                 *)
(* match=['*', '!'+p].                                                     *)
(***************************************************************************)
C20_MatchPatterns ==
    /\ (pc = "first_pass" /\ cfg = DefaultConfig) =>
           \A m \in MatchObjects, i \in IgnoreObjects, e \in ExtensionObjects, h \in BOOLEAN :
               FirstOccurrences(get_match_patterns(m, i, e, h), StatedPatterns(m, i, e, h))
    /\ (pc = "first_pass" /\ cfg.ignore = <<>> /\ cfg.match = <<Str(<<STAR>>)>>) =>
           \A p \in IgnoredPatterns :
               SameOutcome(dirhash_sequential(fs, order, [cfg EXCEPT !.ignore = <<p>>]),
                           dirhash_sequential(fs, order,
                               [cfg EXCEPT !.match = <<Str(<<STAR>>), Str(<<BANG>>) \o p>>]))

\* a tree whose digest changes when 'a' is ignored, and arguments that
\* repeat a pattern
C20_Witness ==
    /\ pc = "first_pass" /\ cfg = DefaultConfig
    /\ res.err = ""
    /\ \E r \in {dirhash_sequential(fs, order, [cfg EXCEPT !.ignore = <<Str(<<97>>)>>])} :
           r.err = "" /\ r.digest # res.digest
    /\ \E m \in MatchObjects, i \in IgnoreObjects, e \in ExtensionObjects :
           Len(get_match_patterns(m, i, e, TRUE)) < Len(StatedPatterns(m, i, e, TRUE))

\* names that share a prefix: 'd1', 'd1.txt', and 'e'
PrefixNamePool == {Str(<<100, 49>>), Str(<<100, 49, DOT, 116, 120, 116>>), Str(<<101>>)}

\* the trees with the entries of f under names of the pool, siblings under
\* different names
PrefixNamings(f) ==
    {nm \in [Nodes -> PrefixNamePool] :
        \A n, m \in Present(f) : (n # m /\ f.ent[n].parent = f.ent[m].parent) => nm[n] # nm[m]}

\* a listing is in ascending order of its strings
Ascending(paths) == \A i, j \in DOMAIN paths : i < j => StrLt(paths[i], paths[j])

\* the strings stated for the leaves of a stored tree: the relative path of a
\* file, and the relative path followed by '/.' of a leaf directory below the
\* root
StatedListing(f, node) ==
    {relative(f, p) : p \in FilePathsOf(node)}
    \cup {relative(f, d.path) \o Str(<<SLASH, DOT>>) :
             d \in {x \in DirNodesOf(node) :
                       x.path.rel # <<>> /\ (x.type # "DirNode" \/ empty(x))}}

\* the arguments of included_paths, the other arguments at their defaults
ListingConfig(c) ==
    c = [DefaultConfig EXCEPT !.match = c.match, !.ignore = c.ignore,
                              !.linked_dirs = c.linked_dirs, !.linked_files = c.linked_files,
                              !.empty_dirs = c.empty_dirs,
                              !.allow_cyclic_links = c.allow_cyclic_links]

\* the listing of the renamed tree is ascending and holds the stated strings
ListingAsStated(f, o, c) ==
    \E l \in {included_paths(f, o, c)} :
        l.err = "" =>
            /\ Ascending(l.paths)
            /\ \E t \in {StoredTree(f, o, c)} :
                   Range(l.paths) \ {Str(<<DOT>>)} = StatedListing(f, t.val)

(***************************************************************************)
(* C21: included_paths returns its strings in ascending order, a file as   *)
(* its relative path and a leaf directory (empty, linked or cyclic) as its *)
(* relative path followed by '/.', for every tree, also when the name of a *)
(* directory is a prefix of the name of a file next to it ('d1' next to    *)
(* 'd1.txt').                                                              *)
(***************************************************************************)
C21_SortedListing ==
    (pc = "done" /\ ListingConfig(cfg)) =>
        /\ ListingAsStated(fs, order, cfg)
        /\ \A nm \in PrefixNamings(fs) : ListingAsStated([fs EXCEPT !.name = nm], order, cfg)

\* under names none of which is a prefix of another the listing is ascending
\* and holds the stated strings (the part of C21 that the code keeps)
C21_WithoutSharedPrefix ==
    (pc = "done" /\ ListingConfig(cfg)) => ListingAsStated(fs, order, cfg)

\* the keywords that main passes on
PassedKeywords(args) ==
    IF args.list
    THEN DOMAIN Pop(preprocess_kwargs(args), {"list", "algorithm", "chunk_size", "jobs"})
    ELSE DOMAIN Pop(preprocess_kwargs(args), {"list"})

(***************************************************************************)
(* C22: for the same directory and the options of the library call, the    *)
(* command prints exactly the digest that dirhash.dirhash returns, with    *)
(* and without --jobs 2, with exit status 0 and nothing on standard error; *)
(* the keyword arguments it builds are parameters of dirhash.dirhash and   *)
(* of dirhash.included_paths; and with --list the output does not depend   *)
(* on algorithm, chunk size and jobs.                                      *)
(***************************************************************************)
C22_CommandLineEqualsLibrary ==
    pc = "exit" =>
        /\ (~cli.args.list /\ res.err = "") =>
              /\ cli.returncode = 0
              /\ cli.stderr = ""
              /\ cli.stdout = <<res.digest>>
        /\ PassedKeywords(cli.args)
              \subseteq (IF cli.args.list THEN included_paths_parameters ELSE dirhash_parameters)
        /\ cli.args.list =>
              \A a \in algorithms_available, s \in ChunkSizes, j \in {1, 2} :
                  \E r \in {main(fs, order, [cli.args EXCEPT !.algorithm = a, !.chunk_size = s,
                                                             !.jobs = j], order)} :
                      r.stdout = cli.stdout /\ r.returncode = cli.returncode

\* the entry that entry n resolves to
RealOf(f, n) == IF f.ent[n].kind = "link" THEN f.ent[n].target ELSE n

\* the path of the k-th directory on the branch from the root to path
BranchPath(f, path, k) ==
    [rel |-> SubSeq(path.rel, 1, k),
     real |-> IF k = 0 THEN Root ELSE RealOf(f, path.rel[k])]

\* parents holds exactly the first k + 1 directories of the branch of path,
\* each real path with the path that entered it
HoldsBranch(f, parents, path, k) ==
    /\ DOMAIN parents = {BranchPath(f, path, i).real : i \in 0..k}
    /\ \A i \in 0..k : parents[BranchPath(f, path, i).real] = BranchPath(f, path, i)

\* the walk that dirhash and included_paths make of tree f
WalkOf(f, o, c) == StoredTree(f, o, c)

(***************************************************************************)
(* C23: during a walk that follows links, after every entry into a         *)
(* directory the map of ancestors holds exactly the real paths of the      *)
(* directories on the branch from the root to that directory, and after    *)
(* every return from a directory below the root exactly those of the       *)
(* branch to its parent: its content at entry.  Hence removal never fails  *)
(* (no KeyError), no registration of an ancestor is replaced or removed,   *)
(* and a cyclic link is reported only with a target on its own branch.     *)
(***************************************************************************)
C23_AncestorsOfBranch ==
    /\ pc = "first_pass" =>
          \E r \in {WalkOf(fs, order, cfg)} :
              /\ r.err # "KeyError"
              /\ r.err = "" =>
                    /\ \A i \in DOMAIN r.st.log :
                           \E e \in {r.st.log[i]} :
                               IF e.event = "enter"
                               THEN HoldsBranch(fs, e.parents, e.path, Len(e.path.rel))
                               ELSE e.path.rel # <<>> =>
                                        HoldsBranch(fs, e.parents, e.path, Len(e.path.rel) - 1)
                    /\ \A d \in DirNodesOf(r.val) :
                           d.type = "CyclicLinkedDir" =>
                               \E k \in 0..(Len(d.path.rel) - 1) :
                                   d.target_path = BranchPath(fs, d.path, k)
    /\ pc = "done" => res.err # "KeyError" /\ res_mp.err # "KeyError" /\ listing.err # "KeyError"

\* on the trees of up to MaxNodes entries the map holds the branch and no
\* removal fails (the part of C23 that the code keeps)
C23_SessionTrees ==
    fs.ent[Slots].kind = "none" => C23_AncestorsOfBranch

\* traverse(root, recursion_filter, follow_links=False, include_empty)
TraverseNoFollow(f, o, c, include_empty) ==
    traverse(f, [Walk(o, MakeFilter(c), Protocol(<<"name", "data">>, c.allow_cyclic_links),
                      None, c.chunk_size, "identity", "identity", <<>>)
                     EXCEPT !.follow_links = FALSE, !.include_empty = include_empty])

\* the stored tree holds every accepted symlink to a directory as a LinkedDir
\* in the directories of its parent, holds no other node for a symlink, and
\* its leaves list the link as '<relative path>/.'
LinkedDirsAreLeaves(f, c, node, include_empty) ==
    /\ \A d \in DirNodesOf(node) :
          /\ d.type # "CyclicLinkedDir"
          /\ is_symlink(f, d.path) => d.type = "LinkedDir"
          /\ d.type = "DirNode" =>
                \A n \in ChildrenOf(f, d.path.real) :
                    (DirLink(f, n) /\ c.linked_dirs) =>
                        \E i \in DOMAIN d.directories :
                            d.directories[i] = LinkedDir(_join(f, d.path, n))
    /\ \A d \in DirNodesOf(node) :
          d.type = "LinkedDir" =>
              \E lp \in {leafpaths(f, node, include_empty)} :
                  \E i \in DOMAIN lp :
                      LeafString(f, lp[i]) = relative(f, d.path) \o Str(<<SLASH, DOT>>)

(***************************************************************************)
(* C24: with follow_links = FALSE the walk raises no error, and a symlink  *)
(* to a directory that the filter accepts becomes a LinkedDir leaf: its    *)
(* children are not enumerated, no CyclicLinkedDir arises, and the leaf is *)
(* kept in the directories of its parent and listed as                     *)
(* '<relative path>/.', for include_empty = TRUE and for                   *)
(* include_empty = FALSE.                                                  *)
(***************************************************************************)
C24_LinkedDirLeaf ==
    pc = "first_pass" =>
        \A include_empty \in BOOLEAN :
            \E r \in {TraverseNoFollow(fs, order, cfg, include_empty)} :
                /\ r.err = ""
                /\ LinkedDirsAreLeaves(fs, cfg, r.val, include_empty)

\* with include_empty = TRUE a symlink to a directory is a LinkedDir leaf
\* (the part of C24 that the code keeps)
C24_WithEmptyIncluded ==
    pc = "first_pass" =>
        \E r \in {TraverseNoFollow(fs, order, cfg, TRUE)} :
            /\ r.err = ""
            /\ LinkedDirsAreLeaves(fs, cfg, r.val, TRUE)

\* the inputs of the pool whose task raised
FailedTasks(f, c, paths) ==
    {i \in DOMAIN paths :
        HashFile(f, paths[i], _get_hasher_factory(c.algorithm).val, c.chunk_size).err # ""}

\* every input of the pool is done and no worker is busy
AllReturned == pool.running = {} /\ DOMAIN pool.results = DOMAIN real_paths

(***************************************************************************)
(* C25: in parallel mode the fold of the second pass starts only after     *)
(* every file-hash task that was dispatched has returned: the step that    *)
(* leads to the fold is taken with no worker busy and a result for every   *)
(* real path.  The digests that the map from real path to digest is built  *)
(* from are written once, by the step in which pool.map returns, and the   *)
(* fold leaves them and the real paths as they are.  When a task fails     *)
(* (an unreadable file, a hasher factory that cannot be called) no fold is *)
(* started, and the call ends with the error of a failed task and with no  *)
(* digest.                                                                 *)
(***************************************************************************)
C25_FoldAfterPool ==
    /\ [][pc' = "second_pass" =>
              /\ AllReturned
              /\ \A i \in DOMAIN real_paths : pool.results[i].err = ""]_vars
    /\ [][file_hashes' # file_hashes => pc = "map" /\ AllReturned]_vars
    /\ [][pc = "second_pass" =>
              /\ UNCHANGED <<real_paths, file_hashes>>
              /\ pc' = "list"]_vars
    /\ [](pc \in {"list", "done", "exit"} /\ FailedTasks(fs, cfg, real_paths) # {} =>
              /\ res_mp.digest = <<>>
              /\ res_mp.folded = {}
              /\ \E i \in FailedTasks(fs, cfg, real_paths) :
                     res_mp.err = HashFile(fs, real_paths[i],
                                           _get_hasher_factory(cfg.algorithm).val,
                                           cfg.chunk_size).err)

\* pool.map has returned the digests of two files and the fold is about to
\* start
C25_Witness ==
    /\ pc = "second_pass"
    /\ Len(real_paths) >= 2
    /\ Len(file_hashes) = Len(real_paths)

\* a call ended with the error of an unreadable file while the task of
\* another file had returned its digest
C25_FailureWitness ==
    /\ pc = "list"
    /\ res_mp.err = "PermissionError"
    /\ Len(real_paths) >= 2
    /\ Cardinality(FailedTasks(fs, cfg, real_paths)) = 1

\* working directories of the process: the file system root, the directory of
\* the sessions, and directories named like entries of the tree
WorkDirs == {<<>>, WorkDir, <<DefaultName(1)>>, <<DefaultName(1), DefaultName(2)>>}

\* '..' joined k times by '/'
Ups(k) == Join(Str(<<SLASH>>), [i \in 1..k |-> Str(<<DOT, DOT>>)])

\* the links of a stored tree that were found to close a cycle
CyclicLinksOf(node) == {d \in DirNodesOf(node) : d.type = "CyclicLinkedDir"}

\* link_back in directory d1 of the root, pointing to the root
LinkBackToRoot(d) == Len(d.path.rel) = 2 /\ d.target_path.rel = <<>>

TraverseByRealPath(f, o, c, cache_file_apply, jobs) ==
    traverse(f, [Walk(o, MakeFilter(c), Protocol(<<"name">>, True),
                      getattr_hashlib(<<"str", "md5">>), 1, "by_real_path", "identity", <<>>)
                 EXCEPT !.cache_file_apply = cache_file_apply, !.jobs = jobs])

\* the number of calls of file_apply with the real path p
CallsOf(calls, p) == Cardinality({i \in DOMAIN calls : calls[i] = p})

(***************************************************************************)
(* C27: with cache_file_apply = True traverse calls file_apply at most     *)
(* once for each real path, and for a file_apply whose result depends on   *)
(* the real path only it returns the tree that it returns without the      *)
(* cache (so every file entry, a symlink alias as well, holds the result   *)
(* of its real path), with jobs = 1 and with jobs > 1.                     *)
(***************************************************************************)
C27_CachedFileApply ==
    pc = "first_pass" =>
        \E plain \in {TraverseByRealPath(fs, order, cfg, FALSE, 1)} :
            plain.err = "" =>
                \A jobs \in {1} \cup JobCounts :
                    \E cached \in {TraverseByRealPath(fs, order, cfg, TRUE, jobs)} :
                        /\ cached.err = ""
                        /\ cached.val = plain.val
                        /\ \A p \in Nodes : CallsOf(cached.st.calls, p) <= 1

\* without the cache traverse returns the same tree for jobs = 1 and
\* jobs > 1, unless the tree holds a LinkedDir or CyclicLinkedDir, which
\* has no method `apply`
C27_JobsWithoutCache ==
    pc = "first_pass" =>
        \E plain \in {TraverseByRealPath(fs, order, cfg, FALSE, 1)} :
            \A jobs \in JobCounts :
                \E mp \in {TraverseByRealPath(fs, order, cfg, FALSE, jobs)} :
                    IF plain.err # "" THEN mp.err = plain.err
                    ELSE IF RegularTree(plain.val) THEN mp.err = "" /\ mp.val = plain.val
                    ELSE mp.err = "AttributeError"

\* with the cache traverse fails with TypeError at the first file it meets,
\* and returns what it returns without the cache when it meets none
C27_CacheLookupFails ==
    pc = "first_pass" =>
        \E plain \in {TraverseByRealPath(fs, order, cfg, FALSE, 1)} :
            plain.err = "" =>
                \A jobs \in {1} \cup JobCounts :
                    \E cached \in {TraverseByRealPath(fs, order, cfg, TRUE, jobs)} :
                        \E mp \in {TraverseByRealPath(fs, order, cfg, FALSE, jobs)} :
                            IF FilePathsOf(plain.val) # {} THEN cached.err = "TypeError"
                            ELSE cached.err = mp.err /\ (mp.err = "" => cached.val = mp.val)

\* the file digests as _parmap returns them with jobs = 1: the list
\* [func(element) for element in iterable]
InInputOrder(f, c, paths) ==
    _parmap(f, _get_hasher_factory(c.algorithm).val, c.chunk_size, paths, 1)

(***************************************************************************)
(* C28: in parallel mode, whatever order the workers finish in, pool.map   *)
(* returns the digests in the order of the real paths it was given, which  *)
(* is the list that _parmap returns with jobs = 1; so the map that the     *)
(* second pass reads has a key for the real path of every file leaf of     *)
(* the stored tree, the digest under a real path is the digest of the      *)
(* content of that path, and the fold never fails with a KeyError.         *)
(***************************************************************************)
C28_ResultsInInputOrder ==
    /\ [](pc = "second_pass" =>
              /\ InInputOrder(fs, cfg, real_paths).err = ""
              /\ file_hashes = InInputOrder(fs, cfg, real_paths).val
              /\ \E map \in {dict_zip(real_paths, file_hashes)} :
                     /\ \A p \in FilePathsOf(root_node) : p.real \in DOMAIN map
                     /\ \A n \in DOMAIN map :
                            map[n] = HashFile(fs, n, _get_hasher_factory(cfg.algorithm).val,
                                              cfg.chunk_size).val)
    /\ [][pc = "second_pass" => res_mp'.err # "KeyError"]_vars

\* the workers have finished two files of different content, the second
\* input first, and pool.map is about to return
C28_Witness ==
    /\ pc = "map"
    /\ Len(real_paths) >= 2
    /\ Len(pool.done) = Len(real_paths)
    /\ pool.done[1] > pool.done[2]
    /\ \A i \in DOMAIN real_paths : pool.results[i].err = ""
    /\ pool.results[1].val # pool.results[2].val

\* the fold has read the digests of two files of different content
C28_FoldWitness ==
    /\ pc = "list"
    /\ res_mp.err = ""
    /\ Len(real_paths) >= 2
    /\ Len(file_hashes) = Len(real_paths)
    /\ file_hashes[1] # file_hashes[2]

\* the same tree, given to the walk through a symbolic link to its root
ThroughLink(f) == [f EXCEPT !.root_link = TRUE]

\* the target of a cyclic link is a directory strictly above the link on the
\* branch of the link
TargetAbove(d) ==
    /\ Len(d.target_path.rel) < Len(d.path.rel)
    /\ d.target_path.rel = SubSeq(d.path.rel, 1, Len(d.target_path.rel))

(***************************************************************************)
(* C29: a CyclicLinkedDir is produced only for a symlink that lies         *)
(* strictly below the directory whose real path it repeats: its target is  *)
(* a proper ancestor on the branch of the link.  A root directory that is  *)
(* given through a symlink is walked as an ordinary directory: the walk    *)
(* returns what it returns for the root itself, and a tree without links   *)
(* back yields no CyclicLinkedDir.                                         *)
(***************************************************************************)
C29_CycleOnlyBelowTarget ==
    pc = "first_pass" =>
        \A f \in {fs, ThroughLink(fs)} :
            \E r \in {StoredTree(f, order, cfg)} :
                /\ r.err = StoredTree(fs, order, cfg).err
                /\ r.err = "" =>
                       /\ r.val.type = "DirNode"
                       /\ r.val = StoredTree(fs, order, cfg).val
                       /\ \A d \in CyclicLinksOf(r.val) : TargetAbove(d) /\ LinksBack(fs, EntryOf(d.path))

\* for a root that is given by its own path the statement holds
C29_PlainRoot ==
    pc = "first_pass" =>
        \E r \in {StoredTree(fs, order, cfg)} :
            r.err = "" =>
                /\ r.val.type = "DirNode"
                /\ \A d \in CyclicLinksOf(r.val) : TargetAbove(d) /\ LinksBack(fs, EntryOf(d.path))

\* a root given through a symlink is returned as a CyclicLinkedDir whose
\* target is the root itself, whatever the tree holds
C29_RootIsItsOwnCycle ==
    pc = "first_pass" =>
        \E r \in {StoredTree(ThroughLink(fs), order, cfg)} :
            /\ r.err = ""
            /\ r.val = CyclicLinkedDir(from_root, from_root)

\* pattern lists of up to n patterns drawn from pats
ListsUpTo(pats, n) == UNION {[1..k -> pats] : k \in 0..n}

\* match arguments: up to three of '*', 'a' and '!a'
MatchLists == ListsUpTo({Str(<<STAR>>), Str(<<97>>), Str(<<BANG, 97>>)}, 3)

\* ignore arguments: up to two of 'a' and 'b'
IgnoreLists == ListsUpTo({Str(<<97>>), Str(<<98>>)}, 2)

\* relative paths of files, as components: a, b, a/b, b/a, c, c/c
PathPool ==
    {<<Str(<<97>>)>>, <<Str(<<98>>)>>, <<Str(<<97>>), Str(<<98>>)>>,
     <<Str(<<98>>), Str(<<97>>)>>, <<Str(<<99>>)>>, <<Str(<<99>>), Str(<<99>>)>>}

\* the list match + ['!' + p for p in ignore] before duplicates are removed
FullList(m, i) == StatedPatterns(List(m), List(i), None, FALSE)

\* the path matches a pattern of the ignore argument
Ignored(i, components) == \E k \in DOMAIN i : GlobMatches(i[k], components)

(***************************************************************************)
(* C30: removing the duplicates in get_match_patterns never changes which  *)
(* paths are included: for every path the last matching pattern of the     *)
(* list that get_match_patterns returns decides as the last matching       *)
(* pattern of match + ['!' + p for p in ignore] does.  So a file whose     *)
(* path matches a pattern of `ignore` is excluded, by the patterns and by  *)
(* the walk, also when match holds the same '!' pattern followed by a      *)
(* pattern that includes the file again.                                   *)
(***************************************************************************)
C30_DeduplicationKeepsOutcome ==
    (pc = "first_pass" /\ cfg = DefaultConfig) =>
        \A m \in MatchLists, i \in IgnoreLists :
            /\ \A p \in PathPool :
                   /\ match_file(get_match_patterns(List(m), List(i), None, FALSE), p)
                          = match_file(FullList(m, i), p)
                   /\ Ignored(i, p) =>
                          ~match_file(get_match_patterns(List(m), List(i), None, FALSE), p)
            /\ \E r \in {StoredTree(fs, order, [cfg EXCEPT !.match = m, !.ignore = i])} :
                   r.err = "" =>
                       \A p \in FilePathsOf(r.val) : ~Ignored(i, Components(fs, p))

\* duplicates removed with the last occurrence kept leave every outcome as
\* it is
C30_KeepLast ==
    (pc = "first_pass" /\ cfg = DefaultConfig) =>
        \A m \in MatchLists, i \in IgnoreLists :
            \A p \in PathPool :
                match_file(Deduplicate_keep_last(FullList(m, i)), p) = match_file(FullList(m, i), p)

\* without a pattern that occurs twice the statement holds
C30_WithoutDuplicates ==
    (pc = "first_pass" /\ cfg = DefaultConfig) =>
        \A m \in MatchLists, i \in IgnoreLists :
            NoDuplicates(FullList(m, i)) =>
                /\ \A p \in PathPool :
                       Ignored(i, p) =>
                           ~match_file(get_match_patterns(List(m), List(i), None, FALSE), p)
                /\ \E r \in {StoredTree(fs, order, [cfg EXCEPT !.match = m, !.ignore = i])} :
                       r.err = "" =>
                           \A p \in FilePathsOf(r.val) : ~Ignored(i, Components(fs, p))

====
